---- MODULE Spec2Model ----
(***************************************************************************)
(* Model of the study-assistant canister (the Motoko actor holding the     *)
(* per-principal maps) and of the flashcard review handler of the          *)
(* frontend that feeds updateCardReview.                                   *)
(*                                                                         *)
(* Representation.                                                         *)
(*  - Map<K,V> is a function whose DOMAIN is the set of keys present;      *)
(*    Map.get returns null exactly when the key is not in the DOMAIN.      *)
(*  - List<T> and [T] are sequences.                                       *)
(*  - Text used as a map key (entity ids, progress subjects) is the        *)
(*    sequence of its character codes, so that Int.toText and the key      *)
(*    order of Map.values() are computed and not assumed.  Other Text      *)
(*    payloads are opaque strings.                                         *)
(*  - Time is counted in units of 1/DayLen of a day, so the constant       *)
(*    24*60*60*1000000000 of the source is DayLen units.                   *)
(*  - Float ease factors are counted in hundredths: 2.5 is 250, 1.3 is     *)
(*    130, 0.2 is 20, 0.15 is 15; products are floored exactly.            *)
(*  - Runtime.trap aborts the message and rolls its effects back: the      *)
(*    operation returns ok = FALSE and the unchanged collection.           *)
(***************************************************************************)
EXTENDS Integers, Sequences, FiniteSets, TLC

\* ------------------------------------------------------------------ bounds

\* Length of one day in clock units.
DayLen == 2
\* Last clock value of the whole-store specification.
StoreMaxTime == 1
\* Most operations in one behaviour of the whole-store specification.
StoreMaxSteps == 2
\* Last clock value of the goals specification.
GoalMaxTime == 1
\* Last clock value of the streak specification.
StreakMaxTime == 6
\* Last clock value of the decks specification.
DeckMaxTime == 1
\* Most cards in all decks together in the decks specification.
MaxCards == 2
\* Last clock value of the scheduler specification.
SchedMaxTime == 1
\* Largest interval of the card the scheduler specification starts on.
SchedMaxInterval == 3
\* Last clock value of the view specification.
ViewMaxTime == 1
\* Most operations in one behaviour of the view specification.
ViewMaxSteps == 7
\* Most ratings in one behaviour of the scheduler specification.
SchedMaxRatings == 3
\* Last clock value of the profiles specification.
ProfileMaxTime == 1
\* Last clock value of the chat specification.
ChatMaxTime == 1
\* Most messages in all sessions together in the chat specification.
MaxMessages == 2
\* Last clock value of the quiz specification.
QuizMaxTime == 1
\* Last clock value of the delete specification.
DeleteMaxTime == 1
\* Last clock value of the notes specification.
NoteMaxTime == 1
\* Last clock value of the cards specification.
CardMaxTime == 1
\* Most cards in all decks together in the cards specification.
CardMaxCards == 2
\* Last clock value of the progress specification.
ProgressMaxTime == 1
\* Last clock value of the message specification.
AtomicMaxTime == 2
\* Most pairs of calls submitted in the message specification.
AtomicMaxBatches == 1
\* Last clock value of the quiz specification.
QuizViewMaxTime == 1
\* Most questions of a generated quiz.
QuizMaxQuestions == 2

\* ------------------------------------------------------------- input sets

\* Principals calling the canister.
Tenants == {"A", "B"}

\* Text payloads callers pass.
Texts == {"p", "q"}

\* Message roles callers pass.
Roles == {"user", "assistant"}

\* PersonalityMode variants.
PersonalityModes == {"strict_teacher", "friendly", "pro_coder"}

\* ------------------------------------------------------------------- Text

\* The decimal digits of a natural number, most significant first, as
\* character codes ("0" is 48).
RECURSIVE toText(_)
toText(n) == IF n < 10 THEN <<48 + n>> ELSE toText(n \div 10) \o <<48 + (n % 10)>>

\* Text.compare(a, b) = #less: lexicographic order on character codes.
RECURSIVE TextLess(_, _)
TextLess(a, b) ==
    IF b = <<>> THEN FALSE
    ELSE IF a = <<>> THEN TRUE
    ELSE IF Head(a) # Head(b) THEN Head(a) < Head(b)
    ELSE TextLess(Tail(a), Tail(b))

\* -------------------------------------------------------------------- Map

EmptyMap == << >>

MapAdd(m, k, v) == [x \in (DOMAIN m) \cup {k} |-> IF x = k THEN v ELSE m[x]]

MapRemove(m, k) == [x \in (DOMAIN m) \ {k} |-> m[x]]

\* The keys of a Text-keyed map in ascending key order.
RECURSIVE SortedKeys(_)
SortedKeys(S) ==
    IF S = {} THEN <<>>
    ELSE LET k == CHOOSE x \in S : \A y \in S \ {x} : TextLess(x, y)
         IN <<k>> \o SortedKeys(S \ {k})

\* map.values().toArray(): the values in ascending key order.
MapValues(m) == LET ks == SortedKeys(DOMAIN m) IN [i \in 1..Len(ks) |-> m[ks[i]]]

\* The tenant's inner map, or a fresh empty one when the tenant has none.
InnerOrEmpty(outer, caller) ==
    IF caller \in DOMAIN outer THEN outer[caller] ELSE EmptyMap

\* An operation's outcome: the collection after it, whether it returned
\* (ok) or trapped, and the value returned.
Ret(st, val) == [st |-> st, ok |-> TRUE, val |-> val]

Trap(st, msg) == [st |-> st, ok |-> FALSE, val |-> msg]

Unit == "()"

\* ---------------------------------------------------------------- Profile

\* createProfile without the containsKey test.
createProfileReplacing(ps, caller, t, displayName, mode, language) ==
    Ret(MapAdd(ps, caller,
               [displayName |-> displayName, personalityMode |-> mode,
                preferredLanguage |-> language, createdAt |-> t]),
        Unit)

\* createProfile writing the profile before it tests for an existing one,
\* with the write kept when it traps.
createProfileTrapLate(ps, caller, t, displayName, mode, language) ==
    LET written == MapAdd(ps, caller,
                          [displayName |-> displayName, personalityMode |-> mode,
                           preferredLanguage |-> language, createdAt |-> t])
    IN IF caller \in DOMAIN ps
       THEN Trap(written, "Profile already exists, use update function instead")
       ELSE Ret(written, Unit)

createProfile(ps, caller, t, displayName, mode, language) ==
    IF caller \in DOMAIN ps
    THEN Trap(ps, "Profile already exists, use update function instead")
    ELSE Ret(MapAdd(ps, caller,
                    [displayName |-> displayName, personalityMode |-> mode,
                     preferredLanguage |-> language, createdAt |-> t]),
             Unit)

\* updateProfile moving createdAt on.
updateProfileRestamping(ps, caller, displayName, mode, language) ==
    IF caller \in DOMAIN ps
    THEN Ret(MapAdd(ps, caller,
                    [displayName |-> displayName, personalityMode |-> mode,
                     preferredLanguage |-> language,
                     createdAt |-> ps[caller].createdAt + 1]),
             Unit)
    ELSE Trap(ps, "Profile does not exist, use create function instead")

updateProfile(ps, caller, displayName, mode, language) ==
    IF caller \in DOMAIN ps
    THEN Ret(MapAdd(ps, caller,
                    [displayName |-> displayName, personalityMode |-> mode,
                     preferredLanguage |-> language,
                     createdAt |-> ps[caller].createdAt]),
             Unit)
    ELSE Trap(ps, "Profile does not exist, use create function instead")

getProfile(ps, caller) ==
    IF caller \in DOMAIN ps THEN Ret(ps, ps[caller])
    ELSE Trap(ps, "Profile does not exist")

\* ------------------------------------------------------------------- Chat

createChatSession(cs, caller, t, title) ==
    LET session == [id |-> toText(t), title |-> title, createdAt |-> t,
                    messages |-> <<>>]
        userSessions == MapAdd(InnerOrEmpty(cs, caller), session.id, session)
    IN Ret(MapAdd(cs, caller, userSessions), session.id)

\* addMessage putting the message in front of the list.
addMessagePrepending(cs, caller, t, sessionId, role, content) ==
    IF caller \notin DOMAIN cs THEN Trap(cs, "No chat sessions found for user")
    ELSE IF sessionId \notin DOMAIN cs[caller] THEN Trap(cs, "Chat session not found")
    ELSE LET session == cs[caller][sessionId]
             message == [role |-> role, content |-> content, timestamp |-> t]
             added == [session EXCEPT !.messages = <<message>> \o @]
         IN Ret(MapAdd(cs, caller, MapAdd(cs[caller], sessionId, added)), Unit)

\* addMessage returning without a trap when the session is not there.
addMessageIgnoringAbsent(cs, caller, t, sessionId, role, content) ==
    IF caller \notin DOMAIN cs THEN Trap(cs, "No chat sessions found for user")
    ELSE IF sessionId \notin DOMAIN cs[caller] THEN Ret(cs, Unit)
    ELSE LET session == cs[caller][sessionId]
             message == [role |-> role, content |-> content, timestamp |-> t]
             added == [session EXCEPT !.messages = Append(@, message)]
         IN Ret(MapAdd(cs, caller, MapAdd(cs[caller], sessionId, added)), Unit)

addMessage(cs, caller, t, sessionId, role, content) ==
    IF caller \notin DOMAIN cs THEN Trap(cs, "No chat sessions found for user")
    ELSE IF sessionId \notin DOMAIN cs[caller] THEN Trap(cs, "Chat session not found")
    ELSE LET session == cs[caller][sessionId]
             message == [role |-> role, content |-> content, timestamp |-> t]
             added == [session EXCEPT !.messages = Append(@, message)]
         IN Ret(MapAdd(cs, caller, MapAdd(cs[caller], sessionId, added)), Unit)

fromChatSession(chatSession) ==
    [id |-> chatSession.id, title |-> chatSession.title,
     createdAt |-> chatSession.createdAt, messages |-> chatSession.messages]

getChatSessions(cs, caller) ==
    IF caller \in DOMAIN cs
    THEN LET vs == MapValues(cs[caller])
         IN Ret(cs, [i \in 1..Len(vs) |-> fromChatSession(vs[i])])
    ELSE Ret(cs, <<>>)

getChatMessages(cs, caller, sessionId) ==
    IF caller \notin DOMAIN cs THEN Trap(cs, "No chat sessions found for user")
    ELSE IF sessionId \notin DOMAIN cs[caller] THEN Trap(cs, "Chat session not found")
    ELSE Ret(cs, cs[caller][sessionId].messages)

deleteChatSession(cs, caller, sessionId) ==
    IF caller \in DOMAIN cs
    THEN Ret(MapAdd(cs, caller, MapRemove(cs[caller], sessionId)), Unit)
    ELSE Ret(cs, Unit)

\* ------------------------------------------------------------------ Notes

createNote(ns, caller, t, title, content, topic) ==
    LET note == [id |-> toText(t), title |-> title, content |-> content,
                 topic |-> topic, createdAt |-> t, updatedAt |-> t]
        userNotes == MapAdd(InnerOrEmpty(ns, caller), note.id, note)
    IN Ret(MapAdd(ns, caller, userNotes), note.id)

\* updateNote storing a new note when the caller has none with the id.
updateNoteCreating(ns, caller, t, noteId, title, content, topic) ==
    LET userNotes == InnerOrEmpty(ns, caller)
        updatedNote == [id |-> noteId, title |-> title, content |-> content,
                        topic |-> topic,
                        createdAt |-> IF noteId \in DOMAIN userNotes
                                      THEN userNotes[noteId].createdAt ELSE t,
                        updatedAt |-> t]
    IN Ret(MapAdd(ns, caller, MapAdd(userNotes, noteId, updatedNote)), Unit)

\* updateNote stamping updatedAt with the clock value 0.
updateNoteUnstamped(ns, caller, t, noteId, title, content, topic) ==
    IF caller \notin DOMAIN ns THEN Ret(ns, Unit)
    ELSE IF noteId \notin DOMAIN ns[caller] THEN Ret(ns, Unit)
    ELSE LET existingNote == ns[caller][noteId]
             updatedNote == [id |-> existingNote.id, title |-> title,
                             content |-> content, topic |-> topic,
                             createdAt |-> existingNote.createdAt,
                             updatedAt |-> 0]
         IN Ret(MapAdd(ns, caller, MapAdd(ns[caller], noteId, updatedNote)), Unit)

updateNote(ns, caller, t, noteId, title, content, topic) ==
    IF caller \notin DOMAIN ns THEN Ret(ns, Unit)
    ELSE IF noteId \notin DOMAIN ns[caller] THEN Ret(ns, Unit)
    ELSE LET existingNote == ns[caller][noteId]
             updatedNote == [id |-> existingNote.id, title |-> title,
                             content |-> content, topic |-> topic,
                             createdAt |-> existingNote.createdAt,
                             updatedAt |-> t]
         IN Ret(MapAdd(ns, caller, MapAdd(ns[caller], noteId, updatedNote)), Unit)

\* deleteNote trapping when the note is not there.
deleteNoteStrict(ns, caller, noteId) ==
    IF caller \notin DOMAIN ns THEN Trap(ns, "No notes found for user")
    ELSE IF noteId \notin DOMAIN ns[caller] THEN Trap(ns, "Note not found")
    ELSE Ret(MapAdd(ns, caller, MapRemove(ns[caller], noteId)), Unit)

deleteNote(ns, caller, noteId) ==
    IF caller \in DOMAIN ns
    THEN Ret(MapAdd(ns, caller, MapRemove(ns[caller], noteId)), Unit)
    ELSE Ret(ns, Unit)

getNotes(ns, caller) ==
    IF caller \in DOMAIN ns THEN Ret(ns, MapValues(ns[caller])) ELSE Ret(ns, <<>>)

\* getNote looking the id up in every principal's notes.
getNoteOfAnyone(ns, caller, noteId) ==
    LET owners == {t \in DOMAIN ns : noteId \in DOMAIN ns[t]}
    IN IF owners = {} THEN Trap(ns, "Note not found")
       ELSE Ret(ns, ns[CHOOSE t \in owners : TRUE][noteId])

getNote(ns, caller, noteId) ==
    IF caller \notin DOMAIN ns THEN Trap(ns, "No notes found for user")
    ELSE IF noteId \notin DOMAIN ns[caller] THEN Trap(ns, "Note not found")
    ELSE Ret(ns, ns[caller][noteId])

\* ------------------------------------------------------------- Flashcards

\* easeFactor = 2.5 of a new card, in hundredths.
DefaultEase == 250

createDeck(ds, caller, t, name, subject) ==
    LET deck == [id |-> toText(t), name |-> name, subject |-> subject,
                 cards |-> <<>>]
        userDecks == MapAdd(InnerOrEmpty(ds, caller), deck.id, deck)
    IN Ret(MapAdd(ds, caller, userDecks), deck.id)

\* addCard putting the new card in front of the deck's cards.
addCardPrepending(ds, caller, t, deckId, front, back) ==
    IF caller \notin DOMAIN ds THEN Trap(ds, "No flashcard decks found for user")
    ELSE IF deckId \notin DOMAIN ds[caller] THEN Trap(ds, "Deck not found")
    ELSE LET deck == ds[caller][deckId]
             card == [id |-> toText(t), front |-> front, back |-> back,
                      difficulty |-> 1, nextReview |-> t, interval |-> 0,
                      easeFactor |-> DefaultEase]
             added == [deck EXCEPT !.cards = <<card>> \o @]
         IN Ret(MapAdd(ds, caller, MapAdd(ds[caller], deckId, added)), card.id)

addCard(ds, caller, t, deckId, front, back) ==
    IF caller \notin DOMAIN ds THEN Trap(ds, "No flashcard decks found for user")
    ELSE IF deckId \notin DOMAIN ds[caller] THEN Trap(ds, "Deck not found")
    ELSE LET deck == ds[caller][deckId]
             card == [id |-> toText(t), front |-> front, back |-> back,
                      difficulty |-> 1, nextReview |-> t, interval |-> 0,
                      easeFactor |-> DefaultEase]
             added == [deck EXCEPT !.cards = Append(@, card)]
         IN Ret(MapAdd(ds, caller, MapAdd(ds[caller], deckId, added)), card.id)

\* The function updateCardReview maps over the deck's cards.
reviewCard(card, t, cardId, interval, easeFactor) ==
    IF card.id = cardId
    THEN [id |-> card.id, front |-> card.front, back |-> card.back,
          nextReview |-> t + interval * DayLen,
          difficulty |-> card.difficulty, interval |-> interval,
          easeFactor |-> easeFactor]
    ELSE card

\* updateCardReview trapping when the deck has no card with the id.
updateCardReviewStrict(ds, caller, t, deckId, cardId, interval, easeFactor) ==
    IF caller \notin DOMAIN ds THEN Trap(ds, "No flashcard decks found for user")
    ELSE IF deckId \notin DOMAIN ds[caller] THEN Trap(ds, "Deck not found")
    ELSE LET deck == ds[caller][deckId]
             updatedCards == [i \in 1..Len(deck.cards) |->
                                reviewCard(deck.cards[i], t, cardId, interval, easeFactor)]
             updated == [deck EXCEPT !.cards = updatedCards]
         IN IF \A i \in 1..Len(deck.cards) : deck.cards[i].id # cardId
            THEN Trap(ds, "Card not found")
            ELSE Ret(MapAdd(ds, caller, MapAdd(ds[caller], deckId, updated)), Unit)

updateCardReview(ds, caller, t, deckId, cardId, interval, easeFactor) ==
    IF caller \notin DOMAIN ds THEN Trap(ds, "No flashcard decks found for user")
    ELSE IF deckId \notin DOMAIN ds[caller] THEN Trap(ds, "Deck not found")
    ELSE LET deck == ds[caller][deckId]
             updatedCards == [i \in 1..Len(deck.cards) |->
                                reviewCard(deck.cards[i], t, cardId, interval, easeFactor)]
             updated == [deck EXCEPT !.cards = updatedCards]
         IN Ret(MapAdd(ds, caller, MapAdd(ds[caller], deckId, updated)), Unit)

fromFlashcardDeck(deck) ==
    [id |-> deck.id, name |-> deck.name, subject |-> deck.subject,
     cards |-> deck.cards]

getDecks(ds, caller) ==
    IF caller \in DOMAIN ds
    THEN LET vs == MapValues(ds[caller])
         IN Ret(ds, [i \in 1..Len(vs) |-> fromFlashcardDeck(vs[i])])
    ELSE Ret(ds, <<>>)

getDeckCards(ds, caller, deckId) ==
    IF caller \notin DOMAIN ds THEN Trap(ds, "No flashcard decks found for user")
    ELSE IF deckId \notin DOMAIN ds[caller] THEN Trap(ds, "Deck not found")
    ELSE Ret(ds, ds[caller][deckId].cards)

\* ----------------------------------------------------------- Quiz results

recordQuizResult(qs, caller, t, subject, score, totalQuestions) ==
    LET result == [id |-> toText(t), subject |-> subject, score |-> score,
                   totalQuestions |-> totalQuestions, timestamp |-> t]
        userResults == MapAdd(InnerOrEmpty(qs, caller), result.id, result)
    IN Ret(MapAdd(qs, caller, userResults), result.id)

\* Int.compare(b.timestamp, a.timestamp) = #less or #equal: a is not after b
\* in the descending order.
compareByTimestampDesc(a, b) == b.timestamp <= a.timestamp

\* Array.sort(QuizResult.compareByTimestampDesc): each element in turn is
\* inserted behind the elements that are not after it (a stable sort).
RECURSIVE sortByTimestampDesc(_)
sortByTimestampDesc(arr) ==
    IF arr = <<>> THEN <<>>
    ELSE LET rest == sortByTimestampDesc(SubSeq(arr, 1, Len(arr) - 1))
             x == arr[Len(arr)]
             n == Cardinality({i \in 1..Len(rest) : compareByTimestampDesc(rest[i], x)})
         IN SubSeq(rest, 1, n) \o <<x>> \o SubSeq(rest, n + 1, Len(rest))

getQuizResults(qs, caller) ==
    IF caller \in DOMAIN qs
    THEN Ret(qs, sortByTimestampDesc(MapValues(qs[caller])))
    ELSE Ret(qs, <<>>)

\* ----------------------------------------------------------- Study streak

\* recordStudyActivity keeping the streak on a second call of the same day.
recordStudyActivityKeepSameDay(ss, caller, t) ==
    IF caller \in DOMAIN ss
    THEN LET existing == ss[caller]
             lastActivityDay == existing.lastStudyDate \div DayLen
             todayDay == t \div DayLen
         IN Ret(MapAdd(ss, caller,
                       [currentStreak |-> IF lastActivityDay = todayDay - 1
                                          THEN existing.currentStreak + 1
                                          ELSE IF lastActivityDay = todayDay
                                               THEN existing.currentStreak
                                               ELSE 1,
                        lastStudyDate |-> t]),
                Unit)
    ELSE Ret(MapAdd(ss, caller, [currentStreak |-> 1, lastStudyDate |-> t]), Unit)

recordStudyActivity(ss, caller, t) ==
    LET today == t
    IN IF caller \in DOMAIN ss
       THEN LET existing == ss[caller]
                lastActivityDay == existing.lastStudyDate \div DayLen
                todayDay == today \div DayLen
                updatedStreak ==
                    [currentStreak |-> IF lastActivityDay = todayDay - 1
                                       THEN existing.currentStreak + 1
                                       ELSE 1,
                     lastStudyDate |-> today]
            IN Ret(MapAdd(ss, caller, updatedStreak), Unit)
       ELSE Ret(MapAdd(ss, caller, [currentStreak |-> 1, lastStudyDate |-> today]),
                Unit)

\* getStudyStreak storing the default record it returns.
getStudyStreakCreating(ss, caller) ==
    IF caller \in DOMAIN ss THEN Ret(ss, ss[caller])
    ELSE Ret(MapAdd(ss, caller, [currentStreak |-> 0, lastStudyDate |-> 0]),
             [currentStreak |-> 0, lastStudyDate |-> 0])

getStudyStreak(ss, caller) ==
    IF caller \in DOMAIN ss THEN Ret(ss, ss[caller])
    ELSE Ret(ss, [currentStreak |-> 0, lastStudyDate |-> 0])

\* ------------------------------------------------------------------ Goals

createGoal(gs, caller, t, title, description, targetDate) ==
    LET goal == [id |-> toText(t), title |-> title, description |-> description,
                 targetDate |-> targetDate, isCompleted |-> FALSE,
                 createdAt |-> t]
        userGoals == MapAdd(InnerOrEmpty(gs, caller), goal.id, goal)
    IN Ret(MapAdd(gs, caller, userGoals), goal.id)

\* completeGoal refusing a goal that is completed already.
completeGoalOnce(gs, caller, goalId) ==
    IF caller \notin DOMAIN gs THEN Trap(gs, "No goals found for user")
    ELSE IF goalId \notin DOMAIN gs[caller] THEN Trap(gs, "Goal not found")
    ELSE IF gs[caller][goalId].isCompleted THEN Trap(gs, "Goal already completed")
    ELSE Ret(MapAdd(gs, caller,
                    MapAdd(gs[caller], goalId,
                           [gs[caller][goalId] EXCEPT !.isCompleted = TRUE])),
             Unit)

completeGoal(gs, caller, goalId) ==
    IF caller \notin DOMAIN gs THEN Trap(gs, "No goals found for user")
    ELSE IF goalId \notin DOMAIN gs[caller] THEN Trap(gs, "Goal not found")
    ELSE LET existingGoal == gs[caller][goalId]
             updatedGoal == [id |-> existingGoal.id, title |-> existingGoal.title,
                             description |-> existingGoal.description,
                             targetDate |-> existingGoal.targetDate,
                             isCompleted |-> TRUE,
                             createdAt |-> existingGoal.createdAt]
         IN Ret(MapAdd(gs, caller, MapAdd(gs[caller], goalId, updatedGoal)), Unit)

getGoals(gs, caller) ==
    IF caller \in DOMAIN gs THEN Ret(gs, MapValues(gs[caller])) ELSE Ret(gs, <<>>)

\* --------------------------------------------------------- Progress stats

\* updateProgressStat keeping one row per call, keyed by the time of the
\* call.
updateProgressStatPerCall(pg, caller, t, subject, masteryPercent) ==
    LET stat == [subject |-> subject, masteryPercent |-> masteryPercent,
                 lastUpdated |-> t]
        userStats == MapAdd(InnerOrEmpty(pg, caller), toText(t), stat)
    IN Ret(MapAdd(pg, caller, userStats), Unit)

updateProgressStat(pg, caller, t, subject, masteryPercent) ==
    LET stat == [subject |-> subject, masteryPercent |-> masteryPercent,
                 lastUpdated |-> t]
        userStats == MapAdd(InnerOrEmpty(pg, caller), subject, stat)
    IN Ret(MapAdd(pg, caller, userStats), Unit)

getProgressStats(pg, caller) ==
    IF caller \in DOMAIN pg THEN Ret(pg, MapValues(pg[caller])) ELSE Ret(pg, <<>>)

\* ------------------------------------------------------------------ state

VARIABLES
    now,       \* Time.now(), the canister's clock
    store,     \* the eight per-principal maps of the actor
    last,      \* the last call: operation, caller, arguments, outcome
    issued,    \* every id a create call has returned, per caller and collection
    studyDays, \* per caller, the days on which recordStudyActivity was called
    alone,     \* the last call's outcome on a store holding the caller's data only,
               \* and whether the call kept what every other principal holds
    steps,     \* operations executed so far
    ui,        \* FlashcardsView of principal UiUser: activeDeck, cards, currentCardIdx
    rated,     \* the last rating given in the view and the card as it was shown
    inflight,  \* the calls submitted together and not yet all executed
    quiz       \* QuizView of principal UiUser: its useState values and the
               \* position of finishQuiz

vars == <<now, store, last, issued, studyDays, alone, steps, ui, rated, inflight, quiz>>

\* The state of a freshly installed actor: eight empty maps.
EmptyStore ==
    [profiles |-> EmptyMap, chatSessions |-> EmptyMap, notes |-> EmptyMap,
     flashcardDecks |-> EmptyMap, quizResults |-> EmptyMap, goals |-> EmptyMap,
     progressStats |-> EmptyMap, studyStreaks |-> EmptyMap]

\* No call is waiting to be executed.
NoMessages == [calls |-> <<>>, seen |-> EmptyStore, todo |-> {}, done |-> <<>>]

\* An answer slot of the quiz: null, a number (an option index) or a string.
NullAnswer == [kind |-> "null", n |-> 0, s |-> ""]

\* QuizView as its useState initial values make it (QuizView.tsx:22-34); pc
\* is the position of finishQuiz, "idle" when none is running.
QuizSetup ==
    [step |-> "setup", topic |-> "", type |-> "mcq", questions |-> <<>>,
     currentIdx |-> 0, selectedAnswer |-> NullAnswer, shortAnswer |-> "",
     answers |-> <<>>, error |-> "", pc |-> "idle"]

Init ==
    /\ now = 0
    /\ store = EmptyStore
    /\ last = [op |-> "init", field |-> "", caller |-> "", args |-> <<>>, ok |-> TRUE, val |-> Unit]
    /\ issued = {}
    /\ studyDays = [c \in Tenants |-> {}]
    /\ alone = [ok |-> TRUE, val |-> Unit, mine |-> <<>>, kept |-> TRUE]
    /\ steps = 0
    /\ ui = [actor |-> FALSE, decks |-> <<>>, activeDeck |-> <<>>, cards |-> <<>>,
            currentCardIdx |-> 0]
    /\ rated = <<>>
    /\ inflight = NoMessages
    /\ quiz = QuizSetup

\* The ids a caller can name within the clock range 0..max.
IdArgs(max) == {toText(t) : t \in 0..max}

\* What one principal holds in a per-principal map.
Part(m, caller) == IF caller \in DOMAIN m THEN <<m[caller]>> ELSE <<>>

\* The per-principal map with every other principal's entry removed.
Only(m, caller) == [x \in (DOMAIN m) \cap {caller} |-> m[x]]

\* A call of operation op by caller on the map named field; F is the public
\* function with its arguments bound, applied to that map.
Backend(field, op, caller, args, F(_)) ==
    LET r == F(store[field])
        solo == F(Only(store[field], caller))
    IN /\ store' = [store EXCEPT ![field] = r.st]
       /\ last' = [op |-> op, field |-> field, caller |-> caller, args |-> args,
                   ok |-> r.ok, val |-> r.val]
       /\ alone' = [ok |-> solo.ok, val |-> solo.val, mine |-> Part(solo.st, caller),
                    kept |-> \A f \in DOMAIN store : \A t \in Tenants \ {caller} :
                                Part(store'[f], t) = Part(store[f], t)]
       /\ UNCHANGED now

\* A call made directly on the canister leaves the view as it is.
Call(field, op, caller, args, F(_)) ==
    /\ Backend(field, op, caller, args, F)
    /\ UNCHANGED <<ui, rated, inflight, quiz>>

\* A create call also records the id it returned.
Create(field, coll, op, caller, args, F(_)) ==
    LET r == F(store[field])
    IN /\ Call(field, op, caller, args, F)
       /\ issued' = IF r.ok THEN issued \cup {<<caller, coll, r.val>>} ELSE issued
       /\ UNCHANGED studyDays

\* The clock advances between messages; it never goes back.
Tick(max) ==
    /\ now < max
    /\ now' = now + 1
    /\ UNCHANGED <<store, last, issued, studyDays, alone, ui, rated, inflight, quiz>>

\* ---------------------------------------------------------------- actions

CreateProfile(Cs, T, L) ==
    \E c \in Cs, displayName \in T, mode \in PersonalityModes, language \in L :
        /\ Call("profiles", "createProfile", c, <<displayName, mode, language>>,
                LAMBDA m : createProfile(m, c, now, displayName, mode, language))
        /\ UNCHANGED <<issued, studyDays>>

UpdateProfile(Cs, T, L) ==
    \E c \in Cs, displayName \in T, mode \in PersonalityModes, language \in L :
        /\ Call("profiles", "updateProfile", c, <<displayName, mode, language>>,
                LAMBDA m : updateProfile(m, c, displayName, mode, language))
        /\ UNCHANGED <<issued, studyDays>>

GetProfile(Cs) ==
    \E c \in Cs :
        /\ Call("profiles", "getProfile", c, <<>>, LAMBDA m : getProfile(m, c))
        /\ UNCHANGED <<issued, studyDays>>

CreateChatSession(Cs, T) ==
    \E c \in Cs, title \in T :
        Create("chatSessions", <<"chatSessions">>, "createChatSession", c, <<title>>,
               LAMBDA m : createChatSession(m, c, now, title))

AddMessage(Cs, R, T, Ids) ==
    \E c \in Cs, sessionId \in Ids, role \in R, content \in T :
        /\ Call("chatSessions", "addMessage", c, <<sessionId, role, content>>,
                LAMBDA m : addMessage(m, c, now, sessionId, role, content))
        /\ UNCHANGED <<issued, studyDays>>

GetChatSessions(Cs) ==
    \E c \in Cs :
        /\ Call("chatSessions", "getChatSessions", c, <<>>,
                LAMBDA m : getChatSessions(m, c))
        /\ UNCHANGED <<issued, studyDays>>

GetChatMessages(Cs, Ids) ==
    \E c \in Cs, sessionId \in Ids :
        /\ Call("chatSessions", "getChatMessages", c, <<sessionId>>,
                LAMBDA m : getChatMessages(m, c, sessionId))
        /\ UNCHANGED <<issued, studyDays>>

DeleteChatSession(Cs, Ids) ==
    \E c \in Cs, sessionId \in Ids :
        /\ Call("chatSessions", "deleteChatSession", c, <<sessionId>>,
                LAMBDA m : deleteChatSession(m, c, sessionId))
        /\ UNCHANGED <<issued, studyDays>>

CreateNote(Cs, T, B) ==
    \E c \in Cs, title \in T, content \in B, topic \in B :
        Create("notes", <<"notes">>, "createNote", c, <<title, content, topic>>,
               LAMBDA m : createNote(m, c, now, title, content, topic))

UpdateNote(Cs, T, B, Ids) ==
    \E c \in Cs, noteId \in Ids, title \in T, content \in B, topic \in B :
        /\ Call("notes", "updateNote", c, <<noteId, title, content, topic>>,
                LAMBDA m : updateNote(m, c, now, noteId, title, content, topic))
        /\ UNCHANGED <<issued, studyDays>>

DeleteNote(Cs, Ids) ==
    \E c \in Cs, noteId \in Ids :
        /\ Call("notes", "deleteNote", c, <<noteId>>, LAMBDA m : deleteNote(m, c, noteId))
        /\ UNCHANGED <<issued, studyDays>>

GetNotes(Cs) ==
    \E c \in Cs :
        /\ Call("notes", "getNotes", c, <<>>, LAMBDA m : getNotes(m, c))
        /\ UNCHANGED <<issued, studyDays>>

GetNote(Cs, Ids) ==
    \E c \in Cs, noteId \in Ids :
        /\ Call("notes", "getNote", c, <<noteId>>, LAMBDA m : getNote(m, c, noteId))
        /\ UNCHANGED <<issued, studyDays>>

CreateDeck(Cs, T) ==
    \E c \in Cs, name \in T, subject \in T :
        Create("flashcardDecks", <<"flashcardDecks">>, "createDeck", c, <<name, subject>>,
               LAMBDA m : createDeck(m, c, now, name, subject))

AddCard(Cs, T, Ids) ==
    \E c \in Cs, deckId \in Ids, front \in T, back \in T :
        Create("flashcardDecks", <<"cards", deckId>>, "addCard", c, <<deckId, front, back>>,
               LAMBDA m : addCard(m, c, now, deckId, front, back))

UpdateCardReview(Cs, Ids, Reviews) ==
    \E c \in Cs, deckId \in Ids, cardId \in Ids, review \in Reviews :
        LET interval == review[1]
            easeFactor == review[2]
        IN /\ Call("flashcardDecks", "updateCardReview", c,
                   <<deckId, cardId, interval, easeFactor>>,
                   LAMBDA m : updateCardReview(m, c, now, deckId, cardId,
                                               interval, easeFactor))
           /\ UNCHANGED <<issued, studyDays>>

GetDecks(Cs) ==
    \E c \in Cs :
        /\ Call("flashcardDecks", "getDecks", c, <<>>, LAMBDA m : getDecks(m, c))
        /\ UNCHANGED <<issued, studyDays>>

GetDeckCards(Cs, Ids) ==
    \E c \in Cs, deckId \in Ids :
        /\ Call("flashcardDecks", "getDeckCards", c, <<deckId>>,
                LAMBDA m : getDeckCards(m, c, deckId))
        /\ UNCHANGED <<issued, studyDays>>

RecordQuizResult(Cs, T, Scores) ==
    \E c \in Cs, subject \in T, score \in Scores, totalQuestions \in Scores :
        Create("quizResults", <<"quizResults">>, "recordQuizResult", c,
               <<subject, score, totalQuestions>>,
               LAMBDA m : recordQuizResult(m, c, now, subject, score, totalQuestions))

GetQuizResults(Cs) ==
    \E c \in Cs :
        /\ Call("quizResults", "getQuizResults", c, <<>>,
                LAMBDA m : getQuizResults(m, c))
        /\ UNCHANGED <<issued, studyDays>>

RecordStudyActivity(Cs) ==
    \E c \in Cs :
        /\ Call("studyStreaks", "recordStudyActivity", c, <<>>,
                LAMBDA m : recordStudyActivity(m, c, now))
        /\ studyDays' = [studyDays EXCEPT ![c] = @ \cup {now \div DayLen}]
        /\ UNCHANGED issued

GetStudyStreak(Cs) ==
    \E c \in Cs :
        /\ Call("studyStreaks", "getStudyStreak", c, <<>>,
                LAMBDA m : getStudyStreak(m, c))
        /\ UNCHANGED <<issued, studyDays>>

CreateGoal(Cs, T, D, Dates) ==
    \E c \in Cs, title \in T, description \in D, targetDate \in Dates :
        Create("goals", <<"goals">>, "createGoal", c, <<title, description, targetDate>>,
               LAMBDA m : createGoal(m, c, now, title, description, targetDate))

CompleteGoal(Cs, Ids) ==
    \E c \in Cs, goalId \in Ids :
        /\ Call("goals", "completeGoal", c, <<goalId>>, LAMBDA m : completeGoal(m, c, goalId))
        /\ UNCHANGED <<issued, studyDays>>

GetGoals(Cs) ==
    \E c \in Cs :
        /\ Call("goals", "getGoals", c, <<>>, LAMBDA m : getGoals(m, c))
        /\ UNCHANGED <<issued, studyDays>>

UpdateProgressStat(Cs, Subjects, Percents) ==
    \E c \in Cs, subject \in Subjects, masteryPercent \in Percents :
        /\ Call("progressStats", "updateProgressStat", c, <<subject, masteryPercent>>,
                LAMBDA m : updateProgressStat(m, c, now, subject, masteryPercent))
        /\ UNCHANGED <<issued, studyDays>>

GetProgressStats(Cs) ==
    \E c \in Cs :
        /\ Call("progressStats", "getProgressStats", c, <<>>,
                LAMBDA m : getProgressStats(m, c))
        /\ UNCHANGED <<issued, studyDays>>

\* --------------------------------------------------- whole-store behaviours

\* Arguments of the whole-store specification.
StoreTexts == {"p"}

StoreIds == IdArgs(StoreMaxTime)

\* <<interval, easeFactor>> arguments of updateCardReview.
StoreReviews == {<<-1, 120>>, <<2, 250>>}

StoreScores == {2}

StoreDates == {5}

StoreSubjects == {<<109>>}

StorePercents == {40}

\* Any of the 27 public functions of the actor, called by any principal.
StoreOp ==
    \/ CreateProfile(Tenants, StoreTexts, StoreTexts)
    \/ UpdateProfile(Tenants, StoreTexts, StoreTexts)
    \/ GetProfile(Tenants)
    \/ CreateChatSession(Tenants, StoreTexts)
    \/ AddMessage(Tenants, Roles, StoreTexts, StoreIds)
    \/ GetChatSessions(Tenants)
    \/ GetChatMessages(Tenants, StoreIds)
    \/ DeleteChatSession(Tenants, StoreIds)
    \/ CreateNote(Tenants, StoreTexts, StoreTexts)
    \/ UpdateNote(Tenants, StoreTexts, StoreTexts, StoreIds)
    \/ DeleteNote(Tenants, StoreIds)
    \/ GetNotes(Tenants)
    \/ GetNote(Tenants, StoreIds)
    \/ CreateDeck(Tenants, StoreTexts)
    \/ AddCard(Tenants, StoreTexts, StoreIds)
    \/ UpdateCardReview(Tenants, StoreIds, StoreReviews)
    \/ GetDecks(Tenants)
    \/ GetDeckCards(Tenants, StoreIds)
    \/ RecordQuizResult(Tenants, StoreTexts, StoreScores)
    \/ GetQuizResults(Tenants)
    \/ RecordStudyActivity(Tenants)
    \/ GetStudyStreak(Tenants)
    \/ CreateGoal(Tenants, StoreTexts, StoreTexts, StoreDates)
    \/ CompleteGoal(Tenants, StoreIds)
    \/ GetGoals(Tenants)
    \/ UpdateProgressStat(Tenants, StoreSubjects, StorePercents)
    \/ GetProgressStats(Tenants)

NextStore ==
    \/ steps < StoreMaxSteps /\ steps' = steps + 1 /\ StoreOp
    \/ Tick(StoreMaxTime) /\ UNCHANGED steps

SpecStore == Init /\ [][NextStore]_vars

\* ------------------------------------------------------- goals behaviours

GoalDescriptions == {"p"}

GoalDates == {5}

NextGoals ==
    \/ CreateGoal(Tenants, Texts, GoalDescriptions, GoalDates) /\ UNCHANGED steps
    \/ CompleteGoal(Tenants, IdArgs(GoalMaxTime)) /\ UNCHANGED steps
    \/ GetGoals(Tenants) /\ UNCHANGED steps
    \/ Tick(GoalMaxTime) /\ UNCHANGED steps

SpecGoals == Init /\ [][NextGoals]_vars

\* ------------------------------------------------------ streak behaviours

NextStreak ==
    \/ RecordStudyActivity(Tenants) /\ UNCHANGED steps
    \/ GetStudyStreak(Tenants) /\ UNCHANGED steps
    \/ Tick(StreakMaxTime) /\ UNCHANGED steps

SpecStreak == Init /\ [][NextStreak]_vars

\* ------------------------------------------------------- decks behaviours

DeckCallers == {"A"}

DeckTexts == {"p"}

\* <<interval, easeFactor>> arguments of updateCardReview.
DeckReviews == {<<-1, 250>>, <<2, 120>>, <<1, 250>>}

\* The cards held in all decks together.
RECURSIVE SumLen(_, _)
SumLen(m, S) ==
    IF S = {} THEN 0
    ELSE LET d == CHOOSE x \in S : TRUE
         IN Len(m[d].cards) + SumLen(m, S \ {d})

CardCount ==
    IF "A" \in DOMAIN store.flashcardDecks
    THEN SumLen(store.flashcardDecks["A"], DOMAIN store.flashcardDecks["A"])
    ELSE 0

NextDecks ==
    \/ CreateDeck(DeckCallers, DeckTexts) /\ UNCHANGED steps
    \/ CardCount < MaxCards /\ AddCard(DeckCallers, DeckTexts, IdArgs(DeckMaxTime)) /\ UNCHANGED steps
    \/ UpdateCardReview(DeckCallers, IdArgs(DeckMaxTime), DeckReviews) /\ UNCHANGED steps
    \/ GetDecks(DeckCallers) /\ UNCHANGED steps
    \/ GetDeckCards(DeckCallers, IdArgs(DeckMaxTime)) /\ UNCHANGED steps
    \/ Tick(DeckMaxTime) /\ UNCHANGED steps

SpecDecks == Init /\ [][NextDecks]_vars

\* ------------------------------------------------------ the flashcard view

\* The principal signed in to the view.
UiUser == "A"

Ratings == {"again", "hard", "good", "easy"}

Max(a, b) == IF a >= b THEN a ELSE b

\* `deck_${Date.now()}` and `card_${Date.now()}`: the prefix, then the clock.
LocalDeckId(t) == <<100, 101, 99, 107, 95>> \o toText(t)

LocalCardId(t) == <<99, 97, 114, 100, 95>> \o toText(t)

cardFromBackend(c) ==
    [id |-> c.id, front |-> c.front, back |-> c.back, interval |-> c.interval,
     easeFactor |-> c.easeFactor, nextReview |-> c.nextReview]

\* The switch of rateCard with the lower bound of the ease left out of the
\* again branch.
scheduleAgainUnbounded(rating, interval, easeFactor) ==
    CASE rating = "again" ->
           [newInterval |-> 1, newEase |-> easeFactor - 20]
      [] rating = "hard" ->
           [newInterval |-> Max(1, (interval * 120) \div 100),
            newEase |-> Max(130, easeFactor - 15)]
      [] rating = "good" ->
           [newInterval |-> (interval * easeFactor) \div 100, newEase |-> easeFactor]
      [] rating = "easy" ->
           [newInterval |-> (interval * easeFactor * 130) \div 10000,
            newEase |-> easeFactor + 15]

\* The switch of rateCard with the easy branch multiplying as the good branch.
scheduleEasyAsGood(rating, interval, easeFactor) ==
    CASE rating = "again" ->
           [newInterval |-> 1, newEase |-> Max(130, easeFactor - 20)]
      [] rating = "hard" ->
           [newInterval |-> Max(1, (interval * 120) \div 100),
            newEase |-> Max(130, easeFactor - 15)]
      [] rating = "good" ->
           [newInterval |-> (interval * easeFactor) \div 100, newEase |-> easeFactor]
      [] rating = "easy" ->
           [newInterval |-> (interval * easeFactor) \div 100,
            newEase |-> easeFactor + 15]

\* The switch of rateCard with the good and easy branches giving at least
\* one day.
scheduleAtLeastOneDay(rating, interval, easeFactor) ==
    CASE rating = "again" ->
           [newInterval |-> 1, newEase |-> Max(130, easeFactor - 20)]
      [] rating = "hard" ->
           [newInterval |-> Max(1, (interval * 120) \div 100),
            newEase |-> Max(130, easeFactor - 15)]
      [] rating = "good" ->
           [newInterval |-> Max(1, (interval * easeFactor) \div 100),
            newEase |-> easeFactor]
      [] rating = "easy" ->
           [newInterval |-> Max(1, (interval * easeFactor * 130) \div 10000),
            newEase |-> easeFactor + 15]

\* The switch of rateCard.  easeFactor is in hundredths: 1.3 is 130, 0.2 is
\* 20, 0.15 is 15; Math.floor(interval * 1.2) is the floor of interval * 120
\* hundredths, Math.floor(interval * ease * 1.3) the floor of
\* interval * ease * 130 ten-thousandths.
schedule(rating, interval, easeFactor) ==
    CASE rating = "again" ->
           [newInterval |-> 1, newEase |-> Max(130, easeFactor - 20)]
      [] rating = "hard" ->
           [newInterval |-> Max(1, (interval * 120) \div 100),
            newEase |-> Max(130, easeFactor - 15)]
      [] rating = "good" ->
           [newInterval |-> (interval * easeFactor) \div 100, newEase |-> easeFactor]
      [] rating = "easy" ->
           [newInterval |-> (interval * easeFactor * 130) \div 10000,
            newEase |-> easeFactor + 15]

\* A handler that does not reach the canister leaves it as it is.
NoCall == UNCHANGED <<now, store, last, alone>>

\* useActor hands the view its actor.
UiConnect ==
    /\ ~ui.actor
    /\ ui' = [ui EXCEPT !.actor = TRUE]
    /\ NoCall
    /\ UNCHANGED <<issued, studyDays, rated, inflight, quiz>>

\* A LocalDeck of the list of decks.  Its cards field is left out: it is read
\* only by the catch of openDeck, and backend.getDeckCards does not throw.
LocalDeck(id, name, subject) == [id |-> id, name |-> name, subject |-> subject]

\* loadDecks: backend.getDecks gives [] without an actor or on an error.
UiLoadDecks ==
    LET r == getDecks(store.flashcardDecks, UiUser)
        raw == IF ui.actor /\ r.ok THEN r.val ELSE <<>>
        local(d) == LocalDeck(d.id, d.name, d.subject)
    IN /\ IF ui.actor
          THEN Backend("flashcardDecks", "getDecks", UiUser, <<>>,
                       LAMBDA m : getDecks(m, UiUser))
          ELSE NoCall
       /\ ui' = [ui EXCEPT !.decks = [i \in 1..Len(raw) |-> local(raw[i])]]
       /\ UNCHANGED <<issued, studyDays, rated, inflight, quiz>>

\* createDeck of the view: the deck joins the list under the id the canister
\* returned, or under a local id when backend.createDeck threw.
UiCreateDeck(T) ==
    \E name \in T, subject \in T :
        LET r == createDeck(store.flashcardDecks, UiUser, now, name, subject)
            made == ui.actor /\ r.ok
            id == IF made THEN r.val ELSE LocalDeckId(now)
            newDeck == LocalDeck(id, name, subject)
        IN /\ IF ui.actor
              THEN Backend("flashcardDecks", "createDeck", UiUser, <<name, subject>>,
                           LAMBDA m : createDeck(m, UiUser, now, name, subject))
              ELSE NoCall
           /\ issued' = IF made THEN issued \cup {<<UiUser, <<"flashcardDecks">>, id>>}
                        ELSE issued
           /\ ui' = [ui EXCEPT !.decks = Append(@, newDeck)]
           /\ UNCHANGED <<studyDays, rated, inflight, quiz>>

\* openDeck: backend.getDeckCards gives [] without an actor or on an error.
UiOpenDeck ==
    \E k \in 1..Len(ui.decks) :
        LET deck == ui.decks[k]
            r == getDeckCards(store.flashcardDecks, UiUser, deck.id)
            raw == IF ui.actor /\ r.ok THEN r.val ELSE <<>>
        IN /\ IF ui.actor
              THEN Backend("flashcardDecks", "getDeckCards", UiUser, <<deck.id>>,
                           LAMBDA m : getDeckCards(m, UiUser, deck.id))
              ELSE NoCall
           /\ ui' = [ui EXCEPT !.activeDeck = <<deck>>,
                               !.cards = [i \in 1..Len(raw) |-> cardFromBackend(raw[i])],
                               !.currentCardIdx = 0]
           /\ UNCHANGED <<issued, studyDays, rated, inflight, quiz>>

\* addCard of the view: the local card has interval 1 and easeFactor 2.5
\* under the id the canister returned, or under a local id.
UiAddCard(T) ==
    \E front \in T, back \in T :
        /\ ui.activeDeck # <<>>
        /\ LET deckId == ui.activeDeck[1].id
               r == addCard(store.flashcardDecks, UiUser, now, deckId, front, back)
               made == ui.actor /\ r.ok
               id == IF made THEN r.val ELSE LocalCardId(now)
               newCard == [id |-> id, front |-> front, back |-> back, interval |-> 1,
                           easeFactor |-> DefaultEase, nextReview |-> now]
           IN /\ IF ui.actor
                 THEN Backend("flashcardDecks", "addCard", UiUser, <<deckId, front, back>>,
                              LAMBDA m : addCard(m, UiUser, now, deckId, front, back))
                 ELSE NoCall
              /\ issued' = IF made THEN issued \cup {<<UiUser, <<"cards", deckId>>, id>>}
                           ELSE issued
              /\ ui' = [ui EXCEPT !.cards = Append(@, newCard)]
              /\ UNCHANGED <<studyDays, rated, inflight, quiz>>

\* rateCard: the new interval and ease of the card shown go to
\* backend.updateCardReview (a failure is swallowed), then into the local
\* card, and the view moves on to the next card.
UiRateCard ==
    \E rating \in Ratings :
        /\ ui.activeDeck # <<>>
        /\ Len(ui.cards) # 0
        /\ LET deckId == ui.activeDeck[1].id
               card == ui.cards[ui.currentCardIdx + 1]
               n == schedule(rating, card.interval, card.easeFactor)
           IN /\ IF ui.actor
                 THEN Backend("flashcardDecks", "updateCardReview", UiUser,
                              <<deckId, card.id, n.newInterval, n.newEase>>,
                              LAMBDA m : updateCardReview(m, UiUser, now, deckId, card.id,
                                                          n.newInterval, n.newEase))
                 ELSE NoCall
              /\ ui' = [ui EXCEPT
                          !.cards = [idx \in 1..Len(ui.cards) |->
                                       IF idx = ui.currentCardIdx + 1
                                       THEN [ui.cards[idx] EXCEPT
                                               !.interval = n.newInterval,
                                               !.easeFactor = n.newEase,
                                               !.nextReview = now + n.newInterval * DayLen]
                                       ELSE ui.cards[idx]],
                          !.currentCardIdx = (ui.currentCardIdx + 1) % Len(ui.cards)]
              /\ rated' = <<[rating |-> rating, card |-> card, called |-> ui.actor,
                             deckId |-> deckId, cardId |-> card.id,
                             interval |-> n.newInterval, easeFactor |-> n.newEase]>>
              /\ UNCHANGED <<issued, studyDays, inflight, quiz>>

\* --------------------------------------------------------- view behaviours

ViewTexts == {"p"}

\* <<interval, easeFactor>> another session of the same principal can send.
ViewReviews == {<<2, 200>>}

ViewOp ==
    \/ UiConnect
    \/ UiLoadDecks
    \/ UiCreateDeck(ViewTexts)
    \/ UiOpenDeck
    \/ UiAddCard(ViewTexts)
    \/ UpdateCardReview({UiUser}, IdArgs(ViewMaxTime), ViewReviews)
    \/ UiRateCard

NextView ==
    \/ steps < ViewMaxSteps /\ steps' = steps + 1 /\ ViewOp
    \/ Tick(ViewMaxTime) /\ UNCHANGED steps

SpecView == Init /\ [][NextView]_vars

\* ---------------------------------------------------- scheduler behaviours

\* The interval and the easeFactor of the card the view starts on: every
\* interval from -1 up, and ease factors at, just above and well above 1.3.
SchedIntervals == (-1)..SchedMaxInterval

SchedEases == {130, 135, 145, 150, 200, 250}

\* The view of a connected principal that has created a deck, added a card
\* to it and opened the deck, the card having been reviewed before.
InitSched ==
    \E interval \in SchedIntervals, easeFactor \in SchedEases :
        LET id == toText(0)
            d1 == createDeck(EmptyMap, UiUser, 0, "p", "p").st
            d2 == addCard(d1, UiUser, 0, id, "p", "p").st
            d3 == updateCardReview(d2, UiUser, 0, id, id, interval, easeFactor).st
            r == getDeckCards(d3, UiUser, id)
        IN /\ now = 0
           /\ store = [EmptyStore EXCEPT !.flashcardDecks = d3]
           /\ last = [op |-> "getDeckCards", field |-> "flashcardDecks", caller |-> UiUser,
                      args |-> <<id>>, ok |-> r.ok, val |-> r.val]
           /\ issued = {<<UiUser, <<"flashcardDecks">>, id>>, <<UiUser, <<"cards", id>>, id>>}
           /\ studyDays = [c \in Tenants |-> {}]
           /\ alone = [ok |-> r.ok, val |-> r.val, mine |-> Part(d3, UiUser), kept |-> TRUE]
           /\ steps = 0
           /\ ui = [actor |-> TRUE, decks |-> <<LocalDeck(id, "p", "p")>>,
                    activeDeck |-> <<LocalDeck(id, "p", "p")>>,
                    cards |-> [i \in 1..Len(r.val) |-> cardFromBackend(r.val[i])],
                    currentCardIdx |-> 0]
           /\ rated = <<>>
           /\ inflight = NoMessages
           /\ quiz = QuizSetup

NextSched ==
    \/ UiOpenDeck /\ UNCHANGED steps
    \/ steps < SchedMaxRatings /\ steps' = steps + 1 /\ UiRateCard
    \/ Tick(SchedMaxTime) /\ UNCHANGED steps

SpecSched == InitSched /\ [][NextSched]_vars

\* ---------------------------------------------------- profile behaviours

ProfileLanguages == {"p"}

NextProfiles ==
    \/ CreateProfile(Tenants, Texts, ProfileLanguages) /\ UNCHANGED steps
    \/ UpdateProfile(Tenants, Texts, ProfileLanguages) /\ UNCHANGED steps
    \/ GetProfile(Tenants) /\ UNCHANGED steps
    \/ Tick(ProfileMaxTime) /\ UNCHANGED steps

SpecProfiles == Init /\ [][NextProfiles]_vars

\* ------------------------------------------------------- chat behaviours

ChatCallers == {"A"}

ChatTitles == {"p"}

ChatRoles == {"user"}

\* The messages held in all sessions of a session map together.
RECURSIVE SumMessages(_, _)
SumMessages(m, S) ==
    IF S = {} THEN 0
    ELSE LET x == CHOOSE y \in S : TRUE
         IN Len(m[x].messages) + SumMessages(m, S \ {x})

MessageCount ==
    IF "A" \in DOMAIN store.chatSessions
    THEN SumMessages(store.chatSessions["A"], DOMAIN store.chatSessions["A"])
    ELSE 0

NextChat ==
    \/ CreateChatSession(ChatCallers, ChatTitles) /\ UNCHANGED steps
    \/ MessageCount < MaxMessages /\ AddMessage(ChatCallers, ChatRoles, Texts, IdArgs(ChatMaxTime))
                                  /\ UNCHANGED steps
    \/ GetChatSessions(ChatCallers) /\ UNCHANGED steps
    \/ GetChatMessages(ChatCallers, IdArgs(ChatMaxTime)) /\ UNCHANGED steps
    \/ DeleteChatSession(ChatCallers, IdArgs(ChatMaxTime)) /\ UNCHANGED steps
    \/ Tick(ChatMaxTime) /\ UNCHANGED steps

SpecChat == Init /\ [][NextChat]_vars

\* ------------------------------------------------------- quiz behaviours

\* score and totalQuestions arguments of recordQuizResult.
QuizScores == {2}

NextQuiz ==
    \/ RecordQuizResult(Tenants, Texts, QuizScores) /\ UNCHANGED steps
    \/ GetQuizResults(Tenants) /\ UNCHANGED steps
    \/ Tick(QuizMaxTime) /\ UNCHANGED steps

SpecQuiz == Init /\ [][NextQuiz]_vars

\* ----------------------------------------------------- delete behaviours

DeleteCallers == {"A"}

DeleteTexts == {"p"}

NextDelete ==
    \/ CreateNote(DeleteCallers, DeleteTexts, DeleteTexts) /\ UNCHANGED steps
    \/ DeleteNote(DeleteCallers, IdArgs(DeleteMaxTime)) /\ UNCHANGED steps
    \/ CreateChatSession(DeleteCallers, DeleteTexts) /\ UNCHANGED steps
    \/ DeleteChatSession(DeleteCallers, IdArgs(DeleteMaxTime)) /\ UNCHANGED steps
    \/ Tick(DeleteMaxTime) /\ UNCHANGED steps

SpecDelete == Init /\ [][NextDelete]_vars

\* ------------------------------------------------------ notes behaviours

NoteCallers == {"A"}

\* content and topic arguments of createNote and updateNote.
NoteBodies == {"p"}

NextNotes ==
    \/ CreateNote(NoteCallers, Texts, NoteBodies) /\ UNCHANGED steps
    \/ UpdateNote(NoteCallers, Texts, NoteBodies, IdArgs(NoteMaxTime)) /\ UNCHANGED steps
    \/ DeleteNote(NoteCallers, IdArgs(NoteMaxTime)) /\ UNCHANGED steps
    \/ GetNotes(NoteCallers) /\ UNCHANGED steps
    \/ GetNote(NoteCallers, IdArgs(NoteMaxTime)) /\ UNCHANGED steps
    \/ Tick(NoteMaxTime) /\ UNCHANGED steps

SpecNotes == Init /\ [][NextNotes]_vars

\* ------------------------------------------------------ cards behaviours

CardCallers == {"A"}

CardTexts == {"p"}

\* The deck and card ids named in calls: the ids given out at the clock
\* values 0 and 1.
CardIds == {toText(0), toText(1)}

\* <<interval, easeFactor>> arguments of updateCardReview.
CardReviews == {<<2, 120>>}

NextCards ==
    \/ CreateDeck(CardCallers, CardTexts) /\ UNCHANGED steps
    \/ CardCount < CardMaxCards /\ AddCard(CardCallers, CardTexts, CardIds) /\ UNCHANGED steps
    \/ UpdateCardReview(CardCallers, CardIds, CardReviews) /\ UNCHANGED steps
    \/ Tick(CardMaxTime) /\ UNCHANGED steps

SpecCards == Init /\ [][NextCards]_vars

\* ---------------------------------------------------- progress behaviours

\* The subjects "m" and "p", as character codes: they are the keys of a
\* principal's progress map.
ProgressSubjects == {<<109>>, <<112>>}

\* masteryPercent arguments.
ProgressPercents == {40, 90}

StreakCallers == {"A"}

NextProgress ==
    \/ UpdateProgressStat(Tenants, ProgressSubjects, ProgressPercents) /\ UNCHANGED steps
    \/ GetProgressStats(Tenants) /\ UNCHANGED steps
    \/ RecordStudyActivity(StreakCallers) /\ UNCHANGED steps
    \/ GetStudyStreak(StreakCallers) /\ UNCHANGED steps
    \/ Tick(ProgressMaxTime) /\ UNCHANGED steps

SpecProgress == Init /\ [][NextProgress]_vars

\* ---------------------------------------------------- message behaviours

\* Two calls of one principal are submitted together; the canister executes
\* its messages one at a time, in any order, and the clock may advance
\* between them.

AtomicCaller == "A"

\* The calls submitted: reviews of the card, new cards for the deck, study
\* activity.
AtomicCalls ==
    {[op |-> "updateCardReview", args |-> <<toText(0), toText(0), 1, 250>>],
     [op |-> "updateCardReview", args |-> <<toText(0), toText(0), 2, 200>>],
     [op |-> "addCard", args |-> <<toText(0), "p", "p">>],
     [op |-> "recordStudyActivity", args |-> <<>>]}

\* The map of the actor a function works on.
FieldOf(op) == IF op = "recordStudyActivity" THEN "studyStreaks" ELSE "flashcardDecks"

\* The public function named by a call, applied to its map at clock value t.
Run(call, m, t) ==
    CASE call.op = "updateCardReview" ->
            updateCardReview(m, AtomicCaller, t, call.args[1], call.args[2],
                             call.args[3], call.args[4])
      [] call.op = "addCard" ->
            addCard(m, AtomicCaller, t, call.args[1], call.args[2], call.args[3])
      [] call.op = "recordStudyActivity" ->
            recordStudyActivity(m, AtomicCaller, t)

\* A handler whose reads see the maps as they were when its call was
\* submitted, as if other messages ran between its reads and its writes.
MessageReadsAtSubmission(current, seen) == seen

\* The maps a handler reads: the actor's maps as they are when its message
\* executes.  No public function awaits, so nothing runs between the reads
\* and the writes of a handler.
MessageReads(current, seen) == current

\* The actor holding one deck with one card and a streak record of A, all
\* made at clock value 0.
InitAtomic ==
    LET id == toText(0)
        d1 == createDeck(EmptyMap, AtomicCaller, 0, "p", "p").st
        d2 == addCard(d1, AtomicCaller, 0, id, "p", "p").st
        r == recordStudyActivity(EmptyMap, AtomicCaller, 0)
    IN /\ now = 0
       /\ store = [EmptyStore EXCEPT !.flashcardDecks = d2, !.studyStreaks = r.st]
       /\ last = [op |-> "recordStudyActivity", field |-> "studyStreaks",
                  caller |-> AtomicCaller, args |-> <<>>, ok |-> r.ok, val |-> r.val]
       /\ issued = {<<AtomicCaller, <<"flashcardDecks">>, id>>,
                    <<AtomicCaller, <<"cards", id>>, id>>}
       /\ studyDays = [c \in Tenants |-> IF c = AtomicCaller THEN {0} ELSE {}]
       /\ alone = [ok |-> r.ok, val |-> r.val, mine |-> Part(r.st, AtomicCaller),
                   kept |-> TRUE]
       /\ steps = 0
       /\ ui = [actor |-> FALSE, decks |-> <<>>, activeDeck |-> <<>>, cards |-> <<>>,
               currentCardIdx |-> 0]
       /\ rated = <<>>
       /\ inflight = NoMessages
       /\ quiz = QuizSetup

\* Two calls are submitted together once the calls before them are done.
SubmitPair ==
    /\ inflight.todo = {}
    /\ steps < AtomicMaxBatches
    /\ steps' = steps + 1
    /\ \E c1 \in AtomicCalls, c2 \in AtomicCalls :
          inflight' = [calls |-> <<c1, c2>>, seen |-> store, todo |-> {1, 2},
                       done |-> <<>>]
    /\ UNCHANGED <<now, store, last, issued, studyDays, alone, ui, rated, quiz>>

\* The canister executes one of the submitted calls as one message.
Deliver ==
    \E i \in inflight.todo :
        LET call == inflight.calls[i]
            f == FieldOf(call.op)
            r == Run(call, MessageReads(store, inflight.seen)[f], now)
        IN /\ store' = [store EXCEPT ![f] = r.st]
           /\ last' = [op |-> call.op, field |-> f, caller |-> AtomicCaller,
                       args |-> call.args, ok |-> r.ok, val |-> r.val]
           /\ inflight' = [inflight EXCEPT !.todo = @ \ {i},
                                           !.done = Append(@, [i |-> i, at |-> now])]
           /\ UNCHANGED <<now, issued, studyDays, alone, steps, ui, rated, quiz>>

NextAtomic ==
    \/ SubmitPair
    \/ Deliver
    \/ Tick(AtomicMaxTime) /\ UNCHANGED steps

SpecAtomic == InitAtomic /\ [][NextAtomic]_vars

\* ------------------------------------------------------- quiz behaviours

\* QuizView of principal UiUser.  The user acts while no finishQuiz is
\* running.

QuizTopics == {"p"}

QuizTypes == {"mcq", "short"}

\* The option indices of a question.
QuizOptions == {0, 1}

\* What the user types as a short answer: a blank and a letter.
QuizTexts == {" ", "x"}

\* String.prototype.trim on the strings used here.
Trim(s) == IF s = " " THEN "" ELSE s

NumberAnswer(n) == [kind |-> "number", n |-> n, s |-> ""]

StringAnswer(s) == [kind |-> "string", n |-> 0, s |-> s]

\* The reduce of finishQuiz, in halves of a point: a multiple-choice answer
\* equal to the question's correctIndex counts 1, a short answer that is a
\* string with something in it counts 0.5.
RECURSIVE finishQuizScore(_, _, _, _)
finishQuizScore(questions, answers, type, idx) ==
    IF idx > Len(questions) THEN 0
    ELSE LET q == questions[idx]
             ans == IF idx <= Len(answers) THEN answers[idx] ELSE NullAnswer
             point == IF type = "mcq"
                      THEN (IF ans.kind = "number" /\ ans.n = q.correctIndex THEN 2 ELSE 0)
                      ELSE (IF ans.kind = "string" /\ Trim(ans.s) # "" THEN 1 ELSE 0)
         IN point + finishQuizScore(questions, answers, type, idx + 1)

\* Math.round of a number of halves: a half rounds up.
MathRound(halves) == (halves + 1) \div 2

\* The quizzes generateQuiz can return: one question or more, each with its
\* correctIndex.
GeneratedQuizzes ==
    UNION {[1..n -> {[correctIndex |-> k] : k \in QuizOptions}] : n \in 1..QuizMaxQuestions}

\* The view leaves the canister and the other views as they are.
QuizOnly == NoCall /\ UNCHANGED <<issued, studyDays, ui, rated, inflight>>

\* The topic input and the type buttons of the setup step.
QuizSetTopic ==
    /\ quiz.pc = "idle" /\ quiz.step = "setup"
    /\ \E topic \in QuizTopics : quiz' = [quiz EXCEPT !.topic = topic]
    /\ QuizOnly

QuizSetType ==
    /\ quiz.pc = "idle" /\ quiz.step = "setup"
    /\ \E type \in QuizTypes : quiz' = [quiz EXCEPT !.type = type]
    /\ QuizOnly

\* startQuiz: generateQuiz returns a quiz or throws.
QuizStart ==
    /\ quiz.pc = "idle" /\ quiz.step = "setup"
    /\ IF Trim(quiz.topic) = ""
       THEN quiz' = [quiz EXCEPT !.error = "Please enter a topic"]
       ELSE \/ \E qs \in GeneratedQuizzes :
                 quiz' = [quiz EXCEPT !.error = "", !.questions = qs,
                                      !.answers = [i \in 1..Len(qs) |-> NullAnswer],
                                      !.currentIdx = 0,
                                      !.selectedAnswer = NullAnswer,
                                      !.step = "playing"]
            \/ quiz' = [quiz EXCEPT
                          !.error = "AI is currently unavailable. Please try again."]
    /\ QuizOnly

\* An option button of the playing step.
QuizSelect ==
    /\ quiz.pc = "idle" /\ quiz.step = "playing" /\ quiz.type = "mcq"
    /\ \E optIdx \in QuizOptions :
          quiz' = [quiz EXCEPT !.selectedAnswer = NumberAnswer(optIdx)]
    /\ QuizOnly

\* The short answer input of the playing step.
QuizType ==
    /\ quiz.pc = "idle" /\ quiz.step = "playing" /\ quiz.type = "short"
    /\ \E text \in QuizTexts : quiz' = [quiz EXCEPT !.shortAnswer = text]
    /\ QuizOnly

\* The back button.
QuizBack ==
    /\ quiz.pc = "idle" /\ quiz.step # "setup"
    /\ quiz' = [quiz EXCEPT !.step = "setup"]
    /\ QuizOnly

\* The New Quiz button of the results step.
QuizNew ==
    /\ quiz.pc = "idle" /\ quiz.step = "results"
    /\ quiz' = [quiz EXCEPT !.step = "setup", !.questions = <<>>, !.answers = <<>>]
    /\ QuizOnly

\* submitAnswer, behind the button that is disabled without an answer.  On
\* the last question it calls finishQuiz, which computes the score from the
\* answers of the render that made the handler, calls recordQuizResult and
\* waits; without an actor recordQuizResult throws and finishQuiz goes to the
\* results.
QuizSubmit ==
    /\ quiz.pc = "idle" /\ quiz.step = "playing" /\ Len(quiz.questions) > 0
    /\ IF quiz.type = "mcq" THEN quiz.selectedAnswer # NullAnswer
                            ELSE Trim(quiz.shortAnswer) # ""
    /\ LET answer == IF quiz.type = "mcq" THEN quiz.selectedAnswer
                                          ELSE StringAnswer(quiz.shortAnswer)
           next == [quiz.answers EXCEPT ![quiz.currentIdx + 1] = answer]
           score == finishQuizScore(quiz.questions, quiz.answers, quiz.type, 1)
           args == <<quiz.topic, MathRound(score), Len(quiz.questions)>>
           r == recordQuizResult(store.quizResults, UiUser, now, args[1], args[2], args[3])
       IN IF quiz.currentIdx < Len(quiz.questions) - 1
          THEN /\ quiz' = [quiz EXCEPT !.answers = next, !.currentIdx = @ + 1,
                                       !.selectedAnswer = NullAnswer,
                                       !.shortAnswer = ""]
               /\ NoCall
               /\ UNCHANGED issued
          ELSE IF ui.actor
          THEN /\ Backend("quizResults", "recordQuizResult", UiUser, args,
                          LAMBDA m : recordQuizResult(m, UiUser, now, args[1], args[2],
                                                      args[3]))
               /\ issued' = issued \cup {<<UiUser, <<"quizResults">>, r.val>>}
               /\ quiz' = [quiz EXCEPT !.answers = next, !.pc = "recordStudyActivity"]
          ELSE /\ quiz' = [quiz EXCEPT !.answers = next, !.step = "results"]
               /\ NoCall
               /\ UNCHANGED issued
    /\ UNCHANGED <<studyDays, ui, rated, inflight>>

\* finishQuiz after recordQuizResult has returned: recordStudyActivity, then
\* the results step.
QuizFinish ==
    /\ quiz.pc = "recordStudyActivity"
    /\ Backend("studyStreaks", "recordStudyActivity", UiUser, <<>>,
               LAMBDA m : recordStudyActivity(m, UiUser, now))
    /\ studyDays' = [studyDays EXCEPT ![UiUser] = @ \cup {now \div DayLen}]
    /\ quiz' = [quiz EXCEPT !.step = "results", !.pc = "idle"]
    /\ UNCHANGED <<issued, ui, rated, inflight>>

NextQuizView ==
    \/ UiConnect /\ UNCHANGED steps
    \/ QuizSetTopic /\ UNCHANGED steps
    \/ QuizSetType /\ UNCHANGED steps
    \/ QuizStart /\ UNCHANGED steps
    \/ QuizSelect /\ UNCHANGED steps
    \/ QuizType /\ UNCHANGED steps
    \/ QuizBack /\ UNCHANGED steps
    \/ QuizNew /\ UNCHANGED steps
    \/ QuizSubmit /\ UNCHANGED steps
    \/ QuizFinish /\ UNCHANGED steps
    \/ Tick(QuizViewMaxTime) /\ UNCHANGED steps

SpecQuizView == Init /\ [][NextQuizView]_vars

\* ----------------------------------------------------------------- claims

CollectionOf(l) == IF l.op = "addCard" THEN <<"cards", l.args[1]>> ELSE <<l.field>>

\* Two records of a call are records of the same call with the same outcome.
SameCall(l1, l2) ==
    /\ l1.op = l2.op
    /\ l1.caller = l2.caller
    /\ l1.args = l2.args
    /\ l1.ok = l2.ok
    /\ l1.val = l2.val

CreateOps ==
    {"createChatSession", "createNote", "createDeck", "createGoal",
     "recordQuizResult", "addCard"}

\* C2: entity ids are unique within their collection and tenant and never
\* reused after deletion: a create call that returns never returns an id
\* that an earlier create call of the same caller on the same collection
\* returned, also when the clock has not moved between the two calls.
C2_IdsNeverReused ==
    [][(last'.op \in CreateOps /\ last'.ok /\ ~SameCall(last, last'))
          => <<last'.caller, CollectionOf(last'), last'.val>> \notin issued]_vars

\* Every card held in any deck of any principal.
StoredCards ==
    UNION {UNION {{d.cards[i] : i \in 1..Len(d.cards)} :
                    d \in {store.flashcardDecks[c][k] : k \in DOMAIN store.flashcardDecks[c]}} :
           c \in DOMAIN store.flashcardDecks}

\* easeFactor 1.3, in hundredths.
EaseFloor == 130

\* C3: in every reachable state every stored flashcard has easeFactor >= 1.3,
\* whatever arguments callers pass to updateCardReview.
C3_StoredEaseAtLeastFloor == \A card \in StoredCards : card.easeFactor >= EaseFloor

\* C4: in every reachable state every stored flashcard has interval >= 0,
\* whatever interval argument callers pass to updateCardReview.
C4_StoredIntervalNotNegative == \A card \in StoredCards : card.interval >= 0

\* C5: ease floor of the review scheduler.  Starting from a card with
\* easeFactor >= 1.3, after any sequence of ratings applied by rateCard the
\* easeFactor is never below 1.3: neither the one the view holds for the
\* card, nor the one a rating of such a card computed and handed on.
C5_EaseFloorKept ==
    /\ \A i \in 1..Len(ui.cards) : ui.cards[i].easeFactor >= EaseFloor
    /\ (rated # <<>> /\ rated[1].card.easeFactor >= EaseFloor)
          => rated[1].easeFactor >= EaseFloor

\* A card already at 1.3 after an earlier rating has been rated again or
\* hard, and is still at 1.3.
C5_Witness ==
    /\ steps >= 2
    /\ rated # <<>>
    /\ rated[1].rating \in {"again", "hard"}
    /\ rated[1].card.easeFactor = EaseFloor
    /\ rated[1].easeFactor = EaseFloor
    /\ ui.cards[1].easeFactor = EaseFloor

\* q is the floor of n / d.
IsFloor(q, n, d) == q * d <= n /\ n < (q + 1) * d

\* C6: the review scheduler computes, for every rating and every current
\* (interval, ease): again -> interval' = 1, ease' = max(1.3, ease - 0.2);
\* hard -> interval' = max(1, floor(interval * 1.2)), ease' = max(1.3,
\* ease - 0.15); good -> interval' = floor(interval * ease), ease' = ease;
\* easy -> interval' = floor(interval * ease * 1.3), ease' = ease + 0.15; in
\* particular (good, 2, 2.0) gives (4, 2.0) and (easy, 2, 2.0) gives
\* (5, 2.15); and these values are what updateCardReview is called with.
C6_ReviewScheduler ==
    rated # <<>> =>
        LET r == rated[1]
            i == r.card.interval
            e == r.card.easeFactor
            i2 == r.interval
            e2 == r.easeFactor
        IN /\ r.rating = "again" =>
                 /\ i2 = 1
                 /\ e2 = (IF e - 20 >= 130 THEN e - 20 ELSE 130)
           /\ r.rating = "hard" =>
                 /\ IF i * 120 < 200 THEN i2 = 1 ELSE IsFloor(i2, i * 120, 100)
                 /\ e2 = (IF e - 15 >= 130 THEN e - 15 ELSE 130)
           /\ r.rating = "good" => IsFloor(i2, i * e, 100) /\ e2 = e
           /\ r.rating = "easy" => IsFloor(i2, i * e * 130, 10000) /\ e2 = e + 15
           /\ (r.rating = "good" /\ i = 2 /\ e = 200) => (i2 = 4 /\ e2 = 200)
           /\ (r.rating = "easy" /\ i = 2 /\ e = 200) => (i2 = 5 /\ e2 = 215)
           /\ last.op = "updateCardReview" =>
                 /\ r.called
                 /\ last.caller = UiUser
                 /\ last.args = <<r.deckId, r.cardId, i2, e2>>

\* The card with interval 2 and ease 2.0 has just been rated easy:
\* updateCardReview was called with 5 and 2.15 and has stored them.
C6_Witness ==
    /\ rated # <<>>
    /\ rated[1].rating = "easy"
    /\ rated[1].card.interval = 2
    /\ rated[1].card.easeFactor = 200
    /\ last.op = "updateCardReview" /\ last.ok
    /\ last.args[3] = 5 /\ last.args[4] = 215
    /\ \E card \in StoredCards : card.interval = 5 /\ card.easeFactor = 215

\* C7: goal completion is monotonic: a goal that is completed and still
\* exists after a step is still completed after that step.
C7_CompletionMonotonic ==
    [][\A c \in DOMAIN store.goals : \A g \in DOMAIN store.goals[c] :
          (/\ store.goals[c][g].isCompleted
           /\ c \in DOMAIN store'.goals
           /\ g \in DOMAIN store'.goals[c])
          => store'.goals[c][g].isCompleted]_vars

\* C8: completeGoal(goalId) on a goal the caller has returns, sets
\* isCompleted and changes nothing else (so on an already-completed goal it
\* changes nothing at all); on a goalId the caller does not have it fails
\* with NotFound and changes nothing.  Stated of the call in every reachable
\* state, for every caller and goalId.
C8_CompleteGoal ==
    \A c \in Tenants : \A g \in IdArgs(GoalMaxTime) :
        LET r == completeGoal(store.goals, c, g)
            has == c \in DOMAIN store.goals /\ g \in DOMAIN store.goals[c]
        IN IF has
           THEN /\ r.ok
                /\ r.st[c][g].isCompleted
                /\ \A k \in {"id", "title", "description", "targetDate", "createdAt"} :
                      r.st[c][g][k] = store.goals[c][g][k]
                /\ DOMAIN r.st = DOMAIN store.goals
                /\ DOMAIN r.st[c] = DOMAIN store.goals[c]
                /\ \A h \in DOMAIN r.st[c] \ {g} : r.st[c][h] = store.goals[c][h]
                /\ \A t \in DOMAIN r.st \ {c} : r.st[t] = store.goals[t]
                /\ store.goals[c][g].isCompleted => r.st = store.goals
           ELSE /\ ~r.ok
                /\ r.val \in {"Goal not found", "No goals found for user"}
                /\ r.st = store.goals

\* completeGoal has just returned for a goal of A titled "q" that B does not
\* have, while A holds another goal that is not completed.
C8_Witness ==
    /\ last.op = "completeGoal" /\ last.caller = "A" /\ last.ok
    /\ store.goals["A"][last.args[1]].isCompleted
    /\ store.goals["A"][last.args[1]].title = "q"
    /\ \E h \in DOMAIN store.goals["A"] : ~store.goals["A"][h].isCompleted
    /\ ~completeGoal(store.goals, "B", last.args[1]).ok

\* The day a clock value falls on.
DayOf(t) == CHOOSE d \in 0..t : d * DayLen <= t /\ t < (d + 1) * DayLen

\* C9: recordStudyActivity is the streak step function: no prior record
\* gives 1; a prior record of the day before gives previous + 1; every other
\* case (same day, a gap of more than one day) gives 1; lastStudyDate becomes
\* now.  Stated of the call in every reachable state, for every caller.
C9_StreakStep ==
    \A c \in Tenants :
        LET r == recordStudyActivity(store.studyStreaks, c, now)
            had == c \in DOMAIN store.studyStreaks
            prev == store.studyStreaks[c]
        IN /\ r.ok
           /\ r.st[c].lastStudyDate = now
           /\ r.st[c].currentStreak =
                 IF ~had THEN 1
                 ELSE IF DayOf(prev.lastStudyDate) = DayOf(now) - 1
                      THEN prev.currentStreak + 1
                      ELSE 1
           /\ \A t \in DOMAIN r.st \ {c} : r.st[t] = store.studyStreaks[t]

\* A call on the day after a streak of 3 has just given 4.
C9_Witness ==
    /\ last.op = "recordStudyActivity" /\ last.caller = "A"
    /\ store.studyStreaks["A"].currentStreak = 4
    /\ store.studyStreaks["A"].lastStudyDate = now

\* The number of consecutive days ending with day d that are all in S.
RECURSIVE RunEndingAt(_, _)
RunEndingAt(S, d) == IF d \notin S THEN 0 ELSE 1 + RunEndingAt(S, d - 1)

\* C10: currentStreak equals the number of consecutive calendar days, ending
\* with the day of the most recent call, on each of which the caller
\* recorded at least one study activity.
C10_StreakCountsConsecutiveDays ==
    \A c \in DOMAIN store.studyStreaks :
        store.studyStreaks[c].currentStreak =
            RunEndingAt(studyDays[c], DayOf(store.studyStreaks[c].lastStudyDate))


\* C11: createProfile fails (AlreadyExists) whenever the caller already has a
\* profile and then leaves the existing profile, createdAt included,
\* unchanged; otherwise it stores a profile with the given fields and
\* createdAt = now.  Stated of the call in every reachable state, for every
\* caller and arguments; a call that was made and succeeded found no profile
\* of the caller, so no tenant ever has a second one.
C11_CreateProfile ==
    /\ \A c \in Tenants, displayName \in Texts, mode \in PersonalityModes, language \in Texts :
          LET r == createProfile(store.profiles, c, now, displayName, mode, language)
          IN IF c \in DOMAIN store.profiles
             THEN /\ ~r.ok
                  /\ r.val = "Profile already exists, use update function instead"
                  /\ r.st = store.profiles
             ELSE /\ r.ok
                  /\ DOMAIN r.st = DOMAIN store.profiles \cup {c}
                  /\ r.st[c] = [displayName |-> displayName, personalityMode |-> mode,
                                preferredLanguage |-> language, createdAt |-> now]
                  /\ \A t \in DOMAIN store.profiles : r.st[t] = store.profiles[t]
    /\ (last.op = "createProfile" /\ ~last.ok) =>
          /\ last.caller \in DOMAIN store.profiles
          /\ alone.mine = <<store.profiles[last.caller]>>
    /\ (last.op = "createProfile" /\ last.ok) =>
          /\ store.profiles[last.caller].displayName = last.args[1]
          /\ store.profiles[last.caller].personalityMode = last.args[2]
          /\ store.profiles[last.caller].preferredLanguage = last.args[3]
          /\ store.profiles[last.caller].createdAt <= now

\* A second createProfile of A, with another name and at a later clock value,
\* has just failed, and A's profile is the one created first.
C11_Witness ==
    /\ last.op = "createProfile" /\ last.caller = "A" /\ ~last.ok
    /\ "A" \in DOMAIN store.profiles
    /\ store.profiles["A"].createdAt < now
    /\ store.profiles["A"].displayName # last.args[1]


\* updateProfile as C12 describes it, of the call in the current state.
UpdateProfileContract ==
    \A c \in Tenants, displayName \in Texts, mode \in PersonalityModes, language \in Texts :
        LET r == updateProfile(store.profiles, c, displayName, mode, language)
        IN IF c \in DOMAIN store.profiles
           THEN /\ r.ok
                /\ DOMAIN r.st = DOMAIN store.profiles
                /\ r.st[c] = [displayName |-> displayName, personalityMode |-> mode,
                              preferredLanguage |-> language,
                              createdAt |-> store.profiles[c].createdAt]
                /\ \A t \in DOMAIN store.profiles \ {c} : r.st[t] = store.profiles[t]
           ELSE /\ ~r.ok
                /\ r.val = "Profile does not exist, use create function instead"
                /\ r.st = store.profiles

\* C12: Profile.createdAt is immutable.  updateProfile fails (NotFound) when
\* the caller has no profile and creates nothing; otherwise it replaces
\* displayName, personalityMode and preferredLanguage and keeps createdAt;
\* and no step of any operation changes the createdAt of a profile, so it
\* stays the value createProfile set after any number of updates.
C12_CreatedAtImmutable ==
    /\ []UpdateProfileContract
    /\ [][\A c \in DOMAIN store.profiles :
             /\ c \in DOMAIN store'.profiles
             /\ store'.profiles[c].createdAt = store.profiles[c].createdAt]_vars

\* An updateProfile of A at a later clock value than its createProfile has
\* just given the profile a new name; createdAt is still the earlier value.
C12_Witness ==
    /\ last.op = "updateProfile" /\ last.caller = "A" /\ last.ok
    /\ store.profiles["A"].displayName = "q"
    /\ store.profiles["A"].createdAt < now
    /\ "B" \notin DOMAIN store.profiles


\* The caller holds a session with this id.
HasSession(cs, c, sessionId) == c \in DOMAIN cs /\ sessionId \in DOMAIN cs[c]

\* addMessage on a session the caller holds, of one call and of two calls in
\* a row in the current state: the list read back is the old list with the
\* messages of the calls at its end, in the order of the calls.
AddMessageAppends ==
    \A c \in Tenants, sessionId \in IdArgs(ChatMaxTime) :
        HasSession(store.chatSessions, c, sessionId) =>
            \A role \in Roles, content \in Texts, role2 \in Roles, content2 \in Texts :
                LET cs == store.chatSessions
                    old == cs[c][sessionId].messages
                    m1 == [role |-> role, content |-> content, timestamp |-> now]
                    m2 == [role |-> role2, content |-> content2, timestamp |-> now]
                    r1 == addMessage(cs, c, now, sessionId, role, content)
                    r2 == addMessage(r1.st, c, now, sessionId, role2, content2)
                IN /\ r1.ok /\ r2.ok
                   /\ getChatMessages(r1.st, c, sessionId).val = old \o <<m1>>
                   /\ getChatMessages(r2.st, c, sessionId).val = old \o <<m1, m2>>
                   /\ DOMAIN r1.st = DOMAIN cs
                   /\ DOMAIN r1.st[c] = DOMAIN cs[c]
                   /\ \A k \in DOMAIN cs[c] \ {sessionId} : r1.st[c][k] = cs[c][k]
                   /\ \A k \in {"id", "title", "createdAt"} :
                         r1.st[c][sessionId][k] = cs[c][sessionId][k]

\* C13: chat messages are append-only and kept in insertion order.  After
\* any sequence of addMessage calls on a session getChatMessages returns the
\* appended messages in the order of the calls, whatever their timestamps;
\* each addMessage that is made extends the list it found by one element at
\* the end and removes or reorders no earlier message of any session.
C13_MessagesAppendOnly ==
    /\ []AddMessageAppends
    /\ [][(last'.op = "addMessage" /\ last'.ok /\ store' # store) =>
             LET c == last'.caller
                 sessionId == last'.args[1]
                 cs == store.chatSessions
             IN /\ HasSession(cs, c, sessionId)
                /\ Len(store'.chatSessions[c][sessionId].messages)
                      = Len(cs[c][sessionId].messages) + 1
                /\ SubSeq(store'.chatSessions[c][sessionId].messages, 1,
                          Len(cs[c][sessionId].messages)) = cs[c][sessionId].messages
                /\ \A k \in DOMAIN cs[c] \ {sessionId} :
                      store'.chatSessions[c][k] = cs[c][k]]_vars

\* getChatMessages has just returned two messages of one clock value, "q"
\* first and "p" second, as they were added.
C13_Witness ==
    /\ last.op = "getChatMessages" /\ last.ok
    /\ Len(last.val) = 2
    /\ last.val[1].content = "q" /\ last.val[2].content = "p"
    /\ last.val[1].timestamp = last.val[2].timestamp

\* C14: addMessage and getChatMessages fail (NotFound) when the caller has
\* no session collection or no session with the given id, a session deleted
\* by deleteChatSession included, and a failing addMessage leaves every
\* session's message list unchanged.  Stated of the calls in every reachable
\* state, for every caller, id and message.
C14_ChatNotFound ==
    \A c \in Tenants, sessionId \in IdArgs(ChatMaxTime), role \in Roles, content \in Texts :
        LET cs == store.chatSessions
            a == addMessage(cs, c, now, sessionId, role, content)
            g == getChatMessages(cs, c, sessionId)
            d == deleteChatSession(cs, c, sessionId)
            NotFound == {"No chat sessions found for user", "Chat session not found"}
        IN /\ ~HasSession(cs, c, sessionId) =>
                 /\ ~a.ok /\ a.val \in NotFound
                 /\ ~g.ok /\ g.val \in NotFound
                 /\ a.st = cs
           /\ (c \notin DOMAIN cs) =>
                 /\ a.val = "No chat sessions found for user"
                 /\ g.val = "No chat sessions found for user"
           /\ d.ok
           /\ ~addMessage(d.st, c, now, sessionId, role, content).ok
           /\ addMessage(d.st, c, now, sessionId, role, content).st = d.st
           /\ ~getChatMessages(d.st, c, sessionId).ok

\* addMessage has just failed on the id of a session that A created and
\* deleted, while A holds another session with a message in it.
C14_Witness ==
    /\ last.op = "addMessage" /\ last.caller = "A" /\ ~last.ok
    /\ <<"A", <<"chatSessions">>, last.args[1]>> \in issued
    /\ \E k \in DOMAIN store.chatSessions["A"] :
          Len(store.chatSessions["A"][k].messages) > 0

\* C15: getChatSessions returns the caller's sessions ordered by descending
\* createdAt: of any two adjacent entries of the returned array the earlier
\* one has createdAt >= the later one.
C15_SessionsNewestFirst ==
    (last.op = "getChatSessions" /\ last.ok) =>
        \A i \in 1..(Len(last.val) - 1) :
            last.val[i].createdAt >= last.val[i + 1].createdAt


\* C16: getQuizResults returns every quiz result the caller has recorded,
\* most recent first: adjacent entries of the returned array have
\* non-increasing timestamps, and the array has one entry per
\* recordQuizResult call of the caller, so each such call makes the array one
\* entry longer.
C16_QuizResultsPerCall ==
    /\ [](\A c \in Tenants :
             LET got == getQuizResults(store.quizResults, c)
             IN /\ got.ok
                /\ \A i \in 1..(Len(got.val) - 1) :
                      got.val[i].timestamp >= got.val[i + 1].timestamp)
    /\ [][(last'.op = "recordQuizResult" /\ last'.ok /\ ~SameCall(last, last')) =>
             Len(getQuizResults(store'.quizResults, last'.caller).val)
                = Len(getQuizResults(store.quizResults, last'.caller).val) + 1]_vars

\* C17: a quiz result is immutable once recorded: the stored record with its
\* id keeps its subject, score, totalQuestions and timestamp through every
\* later step, further recordQuizResult calls of the same caller at the same
\* clock value included.
C17_QuizResultImmutable ==
    [][\A c \in DOMAIN store.quizResults : \A id \in DOMAIN store.quizResults[c] :
          /\ c \in DOMAIN store'.quizResults
          /\ id \in DOMAIN store'.quizResults[c]
          /\ store'.quizResults[c][id] = store.quizResults[c][id]]_vars


\* The caller holds an entry with this id in a per-principal map of maps.
Holds(m, c, id) == c \in DOMAIN m /\ id \in DOMAIN m[c]

\* once and twice are the results of a delete of id by c on m and of the same
\* delete on the state the first one left.
IdempotentDelete(m, c, id, once, twice) ==
    /\ once.ok /\ twice.ok
    /\ twice.st = once.st
    /\ ~Holds(once.st, c, id)
    /\ ~Holds(m, c, id) => once.st = m
    /\ c \notin DOMAIN m => c \notin DOMAIN once.st
    /\ Holds(m, c, id) =>
          /\ DOMAIN once.st = DOMAIN m
          /\ DOMAIN once.st[c] = DOMAIN m[c] \ {id}
          /\ \A k \in DOMAIN once.st[c] : once.st[c][k] = m[c][k]
          /\ \A t \in DOMAIN m \ {c} : once.st[t] = m[t]

\* C18: idempotent delete.  deleteNote and deleteChatSession succeed when the
\* id does not exist or the caller has no collection at all; deleting the
\* same id twice leaves the same state as deleting it once; a delete of an
\* absent id leaves the caller's collection unchanged.  Stated of the calls
\* in every reachable state, for every caller and id.
C18_IdempotentDelete ==
    \A c \in Tenants, id \in IdArgs(DeleteMaxTime) :
        /\ LET once == deleteNote(store.notes, c, id)
           IN IdempotentDelete(store.notes, c, id, once, deleteNote(once.st, c, id))
        /\ LET once == deleteChatSession(store.chatSessions, c, id)
           IN IdempotentDelete(store.chatSessions, c, id, once,
                               deleteChatSession(once.st, c, id))

\* deleteNote has just succeeded on an id that A created and had deleted
\* before, and A's other note and A's session are still there.
C18_Witness ==
    /\ last.op = "deleteNote" /\ last.caller = "A" /\ last.ok
    /\ <<"A", <<"notes">>, last.args[1]>> \in issued
    /\ ~Holds(store.notes, "A", last.args[1])
    /\ alone.mine = <<store.notes["A"]>>
    /\ DOMAIN store.notes["A"] # {}
    /\ "A" \in DOMAIN store.chatSessions
    /\ DOMAIN store.chatSessions["A"] # {}


\* C19: updateNote on a note the caller has replaces title, content and
\* topic, keeps id and createdAt and sets updatedAt = now; on an id the
\* caller does not have, or without a note collection, it returns success
\* and changes nothing (it creates no note), whereas getNote on the same id
\* fails (NotFound).  Stated of the calls in every reachable state, for every
\* caller, id and arguments.
C19_UpdateNote ==
    \A c \in Tenants, noteId \in IdArgs(NoteMaxTime) :
        \A title \in Texts, content \in Texts, topic \in Texts :
            LET ns == store.notes
                r == updateNote(ns, c, now, noteId, title, content, topic)
            IN IF Holds(ns, c, noteId)
               THEN /\ r.ok
                    /\ r.st[c][noteId] =
                          [id |-> noteId, title |-> title, content |-> content,
                           topic |-> topic, createdAt |-> ns[c][noteId].createdAt,
                           updatedAt |-> now]
                    /\ ns[c][noteId].id = noteId
                    /\ DOMAIN r.st = DOMAIN ns
                    /\ DOMAIN r.st[c] = DOMAIN ns[c]
                    /\ \A k \in DOMAIN ns[c] \ {noteId} : r.st[c][k] = ns[c][k]
                    /\ \A t \in DOMAIN ns \ {c} : r.st[t] = ns[t]
               ELSE /\ r.ok
                    /\ r.st = ns
                    /\ ~getNote(r.st, c, noteId).ok
                    /\ getNote(r.st, c, noteId).val
                          \in {"Note not found", "No notes found for user"}

\* updateNote has just returned success for an id that A created and then
\* deleted; A's other note is as it was and getNote on the id fails.
C19_Witness ==
    /\ last.op = "updateNote" /\ last.caller = "A" /\ last.ok
    /\ <<"A", <<"notes">>, last.args[1]>> \in issued
    /\ ~Holds(store.notes, "A", last.args[1])
    /\ DOMAIN store.notes["A"] # {}
    /\ \A k \in DOMAIN store.notes["A"] : store.notes["A"][k].title # last.args[2]
    /\ ~getNote(store.notes, "A", last.args[1]).ok

\* Every note held by any principal.
StoredNotes ==
    UNION {{store.notes[c][k] : k \in DOMAIN store.notes[c]} : c \in DOMAIN store.notes}

\* C20: in every reachable state every stored note has updatedAt >= createdAt
\* (the clock never decreases), after any sequence of createNote and
\* updateNote calls.
C20_UpdatedNotBeforeCreated ==
    \A note \in StoredNotes :
        /\ note.updatedAt >= note.createdAt
        /\ note.updatedAt <= now

\* A note that was updated at a later clock value than it was created.
C20_Witness ==
    /\ last.op = "updateNote"
    /\ \E note \in StoredNotes :
          note.id = last.args[1] /\ note.updatedAt > note.createdAt


\* The messages of the two traps of addCard, updateCardReview and
\* getDeckCards.
DeckNotFound == {"Deck not found", "No flashcard decks found for user"}

\* C21: addCard on a deck the caller has appends one card at the end of the
\* deck's card list with difficulty 1, nextReview = now, interval 0 and
\* easeFactor 2.5, and leaves the deck's existing cards, the caller's other
\* decks and the other principals' decks unchanged; on a deck the caller
\* does not have, or without a deck collection, it fails (NotFound) and
\* changes nothing.  Stated of the calls in every reachable state, for every
\* caller, deck id and arguments.
C21_AddCard ==
    \A c \in Tenants, deckId \in IdArgs(CardMaxTime), front \in Texts, back \in Texts :
        LET ds == store.flashcardDecks
            r == addCard(ds, c, now, deckId, front, back)
        IN IF Holds(ds, c, deckId)
           THEN /\ r.ok
                /\ r.st[c][deckId].cards =
                      Append(ds[c][deckId].cards,
                             [id |-> toText(now), front |-> front, back |-> back,
                              difficulty |-> 1, nextReview |-> now, interval |-> 0,
                              easeFactor |-> 250])
                /\ r.st[c][deckId].id = ds[c][deckId].id
                /\ r.st[c][deckId].name = ds[c][deckId].name
                /\ r.st[c][deckId].subject = ds[c][deckId].subject
                /\ DOMAIN r.st = DOMAIN ds
                /\ DOMAIN r.st[c] = DOMAIN ds[c]
                /\ \A k \in DOMAIN ds[c] \ {deckId} : r.st[c][k] = ds[c][k]
                /\ \A t \in DOMAIN ds \ {c} : r.st[t] = ds[t]
           ELSE /\ ~r.ok
                /\ r.val \in DeckNotFound
                /\ r.st = ds

\* addCard has just returned for a deck of A that already held a reviewed
\* card: the deck now holds that card, as reviewed, followed by the new one.
C21_Witness ==
    /\ last.op = "addCard" /\ last.caller = "A" /\ last.ok
    /\ now = 1
    /\ Holds(store.flashcardDecks, "A", last.args[1])
    /\ LET cards == store.flashcardDecks["A"][last.args[1]].cards
       IN /\ Len(cards) = 2
          /\ cards[1].interval = 2 /\ cards[1].id = toText(0)
          /\ cards[2] = [id |-> toText(1), front |-> last.args[2], back |-> last.args[3],
                         difficulty |-> 1, nextReview |-> 1, interval |-> 0,
                         easeFactor |-> 250]


\* C22: updateCardReview(deckId, cardId, interval, easeFactor) on a deck
\* holding a card with that id changes exactly one card: one card with the
\* given id gets the given interval and easeFactor and nextReview = now +
\* interval days, keeps its id, front, back, difficulty and position, and
\* every other card of the deck is untouched.  Stated of the calls in every
\* reachable state, for every caller, deck id, card id and review.
C22_ReviewChangesOneCard ==
    \A c \in Tenants, deckId \in IdArgs(CardMaxTime), cardId \in IdArgs(CardMaxTime) :
        \A review \in CardReviews :
            LET ds == store.flashcardDecks
                old == ds[c][deckId].cards
                r == updateCardReview(ds, c, now, deckId, cardId, review[1], review[2])
                new == r.st[c][deckId].cards
            IN (Holds(ds, c, deckId) /\ \E i \in 1..Len(old) : old[i].id = cardId)
               => /\ r.ok
                  /\ Len(new) = Len(old)
                  /\ \E i \in 1..Len(old) :
                        /\ old[i].id = cardId
                        /\ new[i] = [id |-> cardId, front |-> old[i].front,
                                     back |-> old[i].back,
                                     difficulty |-> old[i].difficulty,
                                     interval |-> review[1], easeFactor |-> review[2],
                                     nextReview |-> now + review[1] * DayLen]
                        /\ \A j \in (1..Len(old)) \ {i} : new[j] = old[j]


\* C23: updateCardReview fails (NotFound) when the caller has no deck with
\* the given deckId, changing nothing; when the deck exists but none of its
\* cards has the given cardId it returns success and the deck's card list,
\* like everything else stored, is unchanged.  Stated of the calls in every
\* reachable state, for every caller, deck id, card id and review.
C23_ReviewNotFound ==
    \A c \in Tenants, deckId \in IdArgs(CardMaxTime), cardId \in IdArgs(CardMaxTime) :
        \A review \in CardReviews :
            LET ds == store.flashcardDecks
                r == updateCardReview(ds, c, now, deckId, cardId, review[1], review[2])
            IN IF ~Holds(ds, c, deckId)
               THEN /\ ~r.ok
                    /\ r.val \in DeckNotFound
                    /\ r.st = ds
               ELSE (\A i \in 1..Len(ds[c][deckId].cards) :
                        ds[c][deckId].cards[i].id # cardId)
                    => /\ r.ok
                       /\ r.st[c][deckId].cards = ds[c][deckId].cards
                       /\ r.st = ds

\* updateCardReview has just returned success for a deck of A that holds a
\* card, none with the id named in the call; the card is as addCard stored
\* it.
C23_Witness ==
    /\ last.op = "updateCardReview" /\ last.caller = "A" /\ last.ok
    /\ Holds(store.flashcardDecks, "A", last.args[1])
    /\ LET cards == store.flashcardDecks["A"][last.args[1]].cards
       IN /\ Len(cards) > 0
          /\ \A i \in 1..Len(cards) :
                /\ cards[i].id # last.args[2]
                /\ cards[i].interval = 0
                /\ cards[i].easeFactor = 250


\* The rows of a list of progress rows that are not about the subject.
OtherSubjects(rows, subject) == SelectSeq(rows, LAMBDA row : row.subject # subject)

\* The progress rows and the streak record as C24 describes them, of the
\* state and of the calls made in it.
ProgressSingleton ==
    \A c \in Tenants :
        LET pg == store.progressStats
            ss == store.studyStreaks
            rows == getProgressStats(pg, c).val
        IN /\ \A i, j \in 1..Len(rows) : rows[i].subject = rows[j].subject => i = j
           /\ \A subject \in ProgressSubjects, masteryPercent \in ProgressPercents :
                 LET r == updateProgressStat(pg, c, now, subject, masteryPercent)
                     after == getProgressStats(r.st, c).val
                 IN /\ r.ok
                    /\ SelectSeq(after, LAMBDA row : row.subject = subject)
                          = <<[subject |-> subject, masteryPercent |-> masteryPercent,
                               lastUpdated |-> now]>>
                    /\ OtherSubjects(after, subject) = OtherSubjects(rows, subject)
                    /\ \A t \in Tenants \ {c} :
                          getProgressStats(r.st, t).val = getProgressStats(pg, t).val
           /\ LET r == recordStudyActivity(ss, c, now)
              IN /\ DOMAIN r.st = DOMAIN ss \cup {c}
                 /\ getStudyStreak(r.st, c).val = r.st[c]
                 /\ \A t \in DOMAIN ss \ {c} : r.st[t] = ss[t]

\* C24: progress stats are a singleton per tenant and subject: after any
\* sequence of updateProgressStat calls getProgressStats returns at most one
\* row per subject, the row carries the masteryPercent and lastUpdated of the
\* most recent call for the subject (a call writes them, and no step of any
\* other operation changes a row), and a call leaves the rows of the other
\* subjects as they were.  Each tenant has at most one study-streak record:
\* recordStudyActivity replaces the caller's record.
C24_ProgressSingleton ==
    /\ []ProgressSingleton
    /\ [][store'.progressStats # store.progressStats =>
             /\ last'.op = "updateProgressStat"
             /\ LET c == last'.caller
                    row == store'.progressStats[c][last'.args[1]]
                IN /\ row.masteryPercent = last'.args[2]
                   /\ row.lastUpdated = now
                   /\ \A k \in DOMAIN store'.progressStats[c] \ {last'.args[1]} :
                         /\ c \in DOMAIN store.progressStats
                         /\ k \in DOMAIN store.progressStats[c]
                         /\ store'.progressStats[c][k] = store.progressStats[c][k]]_vars

\* getProgressStats has just returned A's two rows: subject "m" with the 90
\* percent of a call at clock value 1 and subject "p" as a call at clock
\* value 0 left it; A also has a streak record.
C24_Witness ==
    /\ last.op = "getProgressStats" /\ last.caller = "A"
    /\ Len(last.val) = 2
    /\ last.val[1] = [subject |-> <<109>>, masteryPercent |-> 90, lastUpdated |-> 1]
    /\ last.val[2].subject = <<112>> /\ last.val[2].lastUpdated = 0
    /\ "A" \in DOMAIN store.studyStreaks


\* getStudyStreak of a caller without a streak record, of the call in the
\* current state: the default is returned, nothing is stored, and a
\* recordStudyActivity after it gives streak 1.
StreakDefault ==
    \A c \in Tenants :
        c \notin DOMAIN store.studyStreaks =>
            LET ss == store.studyStreaks
                r == getStudyStreak(ss, c)
                next == recordStudyActivity(r.st, c, now)
            IN /\ r.ok
               /\ r.val = [currentStreak |-> 0, lastStudyDate |-> 0]
               /\ r.st = ss
               /\ c \notin DOMAIN r.st
               /\ next.st[c] = [currentStreak |-> 1, lastStudyDate |-> now]

\* C25: getStudyStreak for a caller with no recorded activity returns
\* {currentStreak: 0, lastStudyDate: 0} without failing and without creating
\* a streak record, so the next recordStudyActivity still takes the
\* first-activity branch and yields streak 1; no getStudyStreak step changes
\* what is stored.
C25_StreakDefault ==
    /\ []StreakDefault
    /\ [][last'.op = "getStudyStreak" => store' = store]_vars

\* On the second day getStudyStreak has just returned the default to B, who
\* still has no record, while A has one.
C25_Witness ==
    /\ last.op = "getStudyStreak" /\ last.caller = "B" /\ last.ok
    /\ last.val = [currentStreak |-> 0, lastStudyDate |-> 0]
    /\ "B" \notin DOMAIN store.studyStreaks
    /\ "A" \in DOMAIN store.studyStreaks
    /\ now >= DayLen


\* The create calls of C26 whose entities are kept in a per-caller map under
\* the id the call returns (createProfile keeps one profile per caller and
\* fails when there is one).
RoundTripCreates ==
    {"createChatSession", "createNote", "createDeck", "createGoal", "recordQuizResult"}

\* What the list read of a collection returns to the caller.
ReadAll(field, m, c) ==
    CASE field = "chatSessions" -> getChatSessions(m, c).val
      [] field = "notes" -> getNotes(m, c).val
      [] field = "flashcardDecks" -> getDecks(m, c).val
      [] field = "goals" -> getGoals(m, c).val
      [] field = "quizResults" -> getQuizResults(m, c).val

\* The fields of an entity that the caller of its create call supplied.
Supplied(field, x) ==
    CASE field = "chatSessions" -> <<x.title>>
      [] field = "notes" -> <<x.title, x.content, x.topic>>
      [] field = "flashcardDecks" -> <<x.name, x.subject>>
      [] field = "goals" -> <<x.title, x.description, x.targetDate>>
      [] field = "quizResults" -> <<x.subject, x.score, x.totalQuestions>>

\* C26: round trip of the create calls.  A read by the same caller after a
\* create call returns an entity with the id of the call whose caller-supplied
\* fields are the arguments of the call, and a create call leaves every
\* entity the caller already had in the collection readable with the
\* caller-supplied fields it had, so the round trip of an earlier create
\* call survives the create calls in between.
C26_CreateRoundTrip ==
    [][(last'.op \in RoundTripCreates /\ last'.ok /\ store' # store) =>
          LET c == last'.caller
              f == last'.field
              before == ReadAll(f, store[f], c)
              after == ReadAll(f, store'[f], c)
          IN /\ \E i \in 1..Len(after) :
                   /\ after[i].id = last'.val
                   /\ Supplied(f, after[i]) = last'.args
             /\ \A j \in 1..Len(before) :
                   \E i \in 1..Len(after) :
                      /\ after[i].id = before[j].id
                      /\ Supplied(f, after[i]) = Supplied(f, before[j])]_vars


RECURSIVE Serial(_, _)
Serial(st, ds) ==
    IF ds = <<>> THEN st
    ELSE LET call == inflight.calls[Head(ds).i]
             f == FieldOf(call.op)
         IN Serial([st EXCEPT ![f] = Run(call, st[f], Head(ds).at).st], Tail(ds))

C30_FinalAnswerCounted ==
    [][(quiz.pc = "idle" /\ quiz'.pc = "recordStudyActivity") =>
          /\ last'.op = "recordQuizResult"
          /\ last'.args =
                <<quiz'.topic,
                  MathRound(finishQuizScore(quiz'.questions, quiz'.answers, quiz'.type, 1)),
                  Len(quiz'.questions)>>]_vars

====
